---- MODULE Spec2Model ----
(***************************************************************************)
(* Kokesprite: layered raster document, undo/redo history, the editor's    *)
(* brush/eraser gestures and fill clicks, the fill tool's flood fill and   *)
(* the symmetry manager, modelled as a state machine.                      *)
(*                                                                         *)
(* Conventions                                                             *)
(*   - Python None is the empty tuple <<>> (falsy, like None); a color is  *)
(*     a triple <<r, g, b>> (truthy).                                      *)
(*   - An optional integer argument is <<>> (omitted) or <<i>>.            *)
(*   - Indices are 0-based as in the source; the TLA+ sequence holding a   *)
(*     list is read at index + 1.                                          *)
(*   - A pixel dict is a total function over Coords whose value None means *)
(*     "no entry".  Every Layer owns a dict object; the dict objects live  *)
(*     in store and a Layer refers to its dict by the reference pix, so    *)
(*     that sharing a dict between two layers is expressible.              *)
(*   - Layer.opacity is counted in quarters (0..4 stands for 0.0 .. 1.0);  *)
(*     quarters are exact binary fractions, so the float expression of the *)
(*     source equals the integer expression used here.                    *)
(***************************************************************************)
EXTENDS Integers, Sequences, FiniteSets, TLC

VARIABLES
    layers,                 \* LayerManager.layers
    current_layer_index,    \* LayerManager.current_layer_index
    store,                  \* the pixel dict objects, by reference
    created,                \* number of Layer objects constructed so far
    pixels,                 \* PixelCanvas.pixels (cached flattened view)
    current_color,          \* PixelCanvas.current_color
    history,                \* UndoRedoManager.history
    current_index,          \* UndoRedoManager.current_index
    max_history,            \* UndoRedoManager.max_history
    ncmds,                  \* number of Command objects constructed so far
    current_tool_name,      \* ToolManager.current_tool_name
    drawing,                \* main: drawing
    last_pos,               \* main: last_pos (None or a screen point)
    current_stroke_changes, \* main: current_stroke_changes
    lastOp,                 \* the call made last: an UndoRedoManager call with its arguments,
                            \* a successful merge_down, or another LayerManager / Layer call;
                            \* in the editor, the fill click made last
    ret,                    \* the value the last UndoRedoManager / LayerManager call returned
    run,                    \* history: the latest API calls on the UndoRedoManager, counted
    snaps,                  \* history: active layer's pixels after each command in history was pushed
    pre_gesture,            \* history: active layer's pixels at the last mouse-down or at
                            \* the start of the latest flood_fill
    edits,                  \* number of direct accesses to a Layer object so far
    midkeys,                \* number of key presses handled while the mouse button was down
    flood,                  \* FillTool.flood_fill: the locals of the latest call
    symmetry,               \* main: symmetry_manager (the SymmetryManager object)
    scene,                  \* main: scene ('home', 'new_file' or 'editor')
    nf_width_text,          \* main: nf_width_text, a string of digits
    nf_height_text,         \* main: nf_height_text, a string of digits
    nf_active,              \* main: nf_active ('width', 'height' or 'None' for None)
    canvas,                 \* main: canvas (None or <<the geometry of the PixelCanvas>>)
    current_tool_mode,      \* main: current_tool_mode
    preview_start_pos,      \* main: preview_start_pos (None or a screen point)
    tools,                  \* ToolManager.tools: size and shape of each tool
    rect_tool,              \* the RectangleTool's start_pos, preview_pixels and fill_mode
    line_tool               \* the LineTool's start_pos and preview_pixels

\* the tools' own state and the preview mode of the line / rectangle gesture
toolVars == <<current_tool_mode, preview_start_pos, tools, rect_tool, line_tool>>

\* the state of the scenes outside the editor, the canvas geometry, the tools
sceneVars == <<scene, nf_width_text, nf_height_text, nf_active, canvas, toolVars>>

vars == <<layers, current_layer_index, store, created, pixels, current_color,
          history, current_index, max_history, ncmds, current_tool_name,
          drawing, last_pos, current_stroke_changes, lastOp, ret, run, snaps,
          pre_gesture, edits, midkeys, flood, symmetry, sceneVars>>

----------------------------------------------------------------------------
(* Bounds of the model *)

\* canvas size in cells (PixelCanvas.canvas_width / canvas_height)
CanvasW == 2
CanvasH == 2
\* Layer objects constructed in one run in which layers are edited, the initial
\* "Background" included
MaxCreated == 3
\* Layer objects constructed in one run in which layers are only managed
MaxLayers == 4
\* Command objects constructed in one run on a bare UndoRedoManager
MaxCmds == 3
\* gestures of one editor session that push a command
MaxStrokes == 2
\* key presses of one editor session that arrive while the mouse button is down
MaxMidKeys == 1
\* largest max_history an UndoRedoManager is constructed with
MaxM == 2
\* arguments of the LayerManager calls start at -MaxArg and end at the number of
\* layers that can exist
MaxArg == 1
\* direct accesses to a Layer object in one run: set_pixel, erase_pixel and
\* assignments to visible and opacity
MaxEdits == 2
\* layers of a stack that is flattened
MaxFlat == 2
\* largest canvas_width / canvas_height get_symmetry_points and
\* set_canvas_center are called with
MaxSymW == 3
MaxSymH == 2

----------------------------------------------------------------------------
(* Program constants *)

PIXEL_SIZE == 10
LEFT_PALETTE_W == 120
TOP_OPTIONS_H == 100
DEFAULT_MAX_HISTORY == 50
DEFAULT_CENTER == 64

None == <<>>
BLACK == <<0, 0, 0>>
WHITE == <<255, 255, 255>>
RED == <<255, 0, 0>>
OPAQUE == 4

\* f itself, with every value computed (TLC keeps [x \in S |-> e] unevaluated,
\* which nests without bound along a loop)
Eval(f) == f @@ <<>>

Min(a, b) == IF a < b THEN a ELSE b
Max(a, b) == IF a > b THEN a ELSE b

\* cell coordinates that occur: the canvas and one column to its right
Coords == (0 .. CanvasW) \X (0 .. CanvasH - 1)
Refs == 1 .. Max(MaxCreated, MaxLayers)
EmptyPixels == [c \in Coords |-> None]

----------------------------------------------------------------------------
(* Python list operations *)

PyInsert(s, i, x) ==
    LET n == Len(s)
        j == IF i < 0 THEN Max(0, i + n) ELSE Min(i, n)
    IN SubSeq(s, 1, j) \o <<x>> \o SubSeq(s, j + 1, n)

PyPop(s, i) == SubSeq(s, 1, i) \o SubSeq(s, i + 2, Len(s))

----------------------------------------------------------------------------
(* Layer *)

\* a layer's name is display text that no operation reads: it is left out
Layer(id, visible, opacity) ==
    [id |-> id, visible |-> visible,
     opacity |-> Max(0, Min(OPAQUE, opacity)), pix |-> id]

\* the document state the operations below transform
Doc == [layers |-> layers, current_layer_index |-> current_layer_index,
        store |-> store, created |-> created, pixels |-> pixels,
        current_color |-> current_color]

LayerPixels(d, i) == d.store[d.layers[i + 1].pix]

Layer_set_pixel(d, i, c, color) ==
    [d EXCEPT !.store[d.layers[i + 1].pix][c] = color]

Layer_erase_pixel(d, i, c) ==
    [d EXCEPT !.store[d.layers[i + 1].pix][c] = None]

\* dict objects no layer refers to any more are dropped
Collect(d) ==
    LET live == {d.layers[k].pix : k \in 1 .. Len(d.layers)}
    IN [d EXCEPT !.store = Eval([r \in Refs |-> IF r \in live THEN d.store[r]
                                                  ELSE EmptyPixels])]

Layer_copy_Shared(d, layer) ==
    LET id == d.created + 1
        new_layer == [Layer(id, layer.visible, layer.opacity) EXCEPT !.pix = layer.pix]
    IN [layer |-> new_layer, doc |-> [d EXCEPT !.created = id]]

Layer_copy(d, layer) ==
    LET id == d.created + 1
        new_layer == [Layer(id, layer.visible, layer.opacity) EXCEPT !.pix = id]
    IN [layer |-> new_layer,
        doc |-> [d EXCEPT !.created = id, !.store[id] = d.store[layer.pix]]]

----------------------------------------------------------------------------
(* LayerManager *)

add_layer(d, index) ==
    LET id == d.created + 1
        layer == Layer(id, TRUE, OPAQUE)
        d1 == [d EXCEPT !.created = id, !.store[id] = EmptyPixels]
    IN IF index = None
       THEN [d1 EXCEPT !.layers = Append(d.layers, layer),
                       !.current_layer_index = Len(d.layers)]
       ELSE [d1 EXCEPT !.layers = PyInsert(d.layers, index[1], layer),
                       !.current_layer_index =
                           IF index[1] <= d.current_layer_index THEN @ + 1 ELSE @]

remove_layer_NoClamp(d, index) ==
    IF Len(d.layers) <= 1
    THEN [doc |-> d, ret |-> FALSE]
    ELSE IF 0 <= index /\ index < Len(d.layers)
         THEN LET ci == d.current_layer_index
              IN [doc |-> Collect([d EXCEPT !.layers = PyPop(d.layers, index),
                                      !.current_layer_index =
                                          IF index < ci THEN ci - 1 ELSE ci]),
                  ret |-> TRUE]
         ELSE [doc |-> d, ret |-> FALSE]

remove_layer(d, index) ==
    IF Len(d.layers) <= 1
    THEN [doc |-> d, ret |-> FALSE]
    ELSE IF 0 <= index /\ index < Len(d.layers)
         THEN LET ls == PyPop(d.layers, index)
                  ci == d.current_layer_index
              IN [doc |-> Collect([d EXCEPT !.layers = ls,
                                      !.current_layer_index =
                                          IF index < ci THEN ci - 1
                                          ELSE IF index = ci THEN Min(ci, Len(ls) - 1)
                                          ELSE ci]),
                  ret |-> TRUE]
         ELSE [doc |-> d, ret |-> FALSE]

move_layer_NoShift(d, from_index, to_index) ==
    IF /\ 0 <= from_index /\ from_index < Len(d.layers)
       /\ 0 <= to_index /\ to_index < Len(d.layers)
    THEN [doc |-> [d EXCEPT !.layers = PyInsert(PyPop(d.layers, from_index), to_index,
                                                d.layers[from_index + 1]),
                            !.current_layer_index =
                                IF from_index = d.current_layer_index THEN to_index ELSE @],
          ret |-> TRUE]
    ELSE [doc |-> d, ret |-> FALSE]

move_layer(d, from_index, to_index) ==
    IF /\ 0 <= from_index /\ from_index < Len(d.layers)
       /\ 0 <= to_index /\ to_index < Len(d.layers)
    THEN LET layer == d.layers[from_index + 1]
             ls == PyInsert(PyPop(d.layers, from_index), to_index, layer)
             ci == d.current_layer_index
         IN [doc |-> [d EXCEPT !.layers = ls,
                               !.current_layer_index =
                                   IF from_index = ci THEN to_index
                                   ELSE IF from_index < ci /\ ci <= to_index THEN ci - 1
                                   ELSE IF to_index <= ci /\ ci < from_index THEN ci + 1
                                   ELSE ci],
             ret |-> TRUE]
    ELSE [doc |-> d, ret |-> FALSE]

get_current_layer(d) ==
    IF 0 <= d.current_layer_index /\ d.current_layer_index < Len(d.layers)
    THEN <<d.current_layer_index>>
    ELSE None

set_current_layer_Wraps(d, index) ==
    IF 0 <= index /\ index < Len(d.layers)
    THEN [doc |-> [d EXCEPT !.current_layer_index = index], ret |-> TRUE]
    ELSE [doc |-> [d EXCEPT !.current_layer_index = 0], ret |-> FALSE]

set_current_layer(d, index) ==
    IF 0 <= index /\ index < Len(d.layers)
    THEN [doc |-> [d EXCEPT !.current_layer_index = index], ret |-> TRUE]
    ELSE [doc |-> d, ret |-> FALSE]

duplicate_layer(d, index) ==
    LET i == IF index = None THEN d.current_layer_index ELSE index[1]
    IN IF 0 <= i /\ i < Len(d.layers)
       THEN LET cp == Layer_copy(d, d.layers[i + 1])
            IN [doc |-> [cp.doc EXCEPT !.layers = PyInsert(d.layers, i + 1, cp.layer),
                                       !.current_layer_index = i + 1],
                ret |-> TRUE]
       ELSE [doc |-> d, ret |-> FALSE]

\* one channel triple blended over another, opacity q quarters:
\* int(r1 * (1 - alpha) + r2 * alpha), all operands non-negative
Blend_Rounds(existing, color, q) ==
    [k \in 1 .. 3 |->
        (existing[k] * (OPAQUE - q) + color[k] * q + OPAQUE \div 2) \div OPAQUE]

Blend(existing, color, q) ==
    [k \in 1 .. 3 |-> (existing[k] * (OPAQUE - q) + color[k] * q) \div OPAQUE]

in_bounds_Inclusive(c, w, h) == 0 <= c[1] /\ c[1] <= w /\ 0 <= c[2] /\ c[2] <= h

in_bounds(c, w, h) == 0 <= c[1] /\ c[1] < w /\ 0 <= c[2] /\ c[2] < h

\* the accumulator's value at cell c after the bottom n layers were processed
RECURSIVE FlattenCell(_, _, _, _, _)
FlattenCell(d, c, n, w, h) ==
    IF n = 0 THEN None
    ELSE LET below == FlattenCell(d, c, n - 1, w, h)
             layer == d.layers[n]
             color == d.store[layer.pix][c]
         IN IF ~layer.visible \/ color = None \/ ~in_bounds(c, w, h)
            THEN below
            ELSE IF layer.opacity >= OPAQUE
                 THEN color
                 ELSE Blend(IF below = None THEN WHITE ELSE below, color, layer.opacity)

flatten_layers(d, w, h) ==
    Eval([c \in Coords |-> FlattenCell(d, c, Len(d.layers), w, h)])

\* the method call: flatten_layers builds a new dict and assigns to no
\* attribute of the manager or of a layer
flatten_call_WritesBack(d, w, h) ==
    [doc |-> [d EXCEPT !.store[d.layers[1].pix] = flatten_layers(d, w, h)],
     ret |-> flatten_layers(d, w, h)]

flatten_call(d, w, h) == [doc |-> d, ret |-> flatten_layers(d, w, h)]

MergeCell(existing, color, q) ==
    IF q >= OPAQUE THEN color
    ELSE IF existing # None THEN Blend(existing, color, q)
    ELSE color

merge_down_Replaces(d, index) ==
    LET i == IF index = None THEN d.current_layer_index ELSE index[1]
    IN IF i > 0 /\ i < Len(d.layers)
       THEN LET cur == d.layers[i + 1]
                bel == d.layers[i]
                d1 == [d EXCEPT !.store[bel.pix] = d.store[cur.pix]]
            IN [doc |-> remove_layer(d1, i).doc, ret |-> TRUE]
       ELSE [doc |-> d, ret |-> FALSE]

merge_down(d, index) ==
    LET i == IF index = None THEN d.current_layer_index ELSE index[1]
    IN IF i > 0 /\ i < Len(d.layers)
       THEN LET cur == d.layers[i + 1]
                bel == d.layers[i]
                up == d.store[cur.pix]
                lo == d.store[bel.pix]
                merged == Eval([c \in Coords |->
                                   IF up[c] = None THEN lo[c]
                                   ELSE MergeCell(lo[c], up[c], cur.opacity)])
                d1 == [d EXCEPT !.store[bel.pix] = merged]
            IN [doc |-> remove_layer(d1, i).doc, ret |-> TRUE]
       ELSE [doc |-> d, ret |-> FALSE]

----------------------------------------------------------------------------
(* PixelCanvas *)

canvas_width == (CanvasW * PIXEL_SIZE) \div PIXEL_SIZE
canvas_height == (CanvasH * PIXEL_SIZE) \div PIXEL_SIZE

\* canvas.x / canvas.y as the editor scene sets them with no scrolling
canvas_x == LEFT_PALETTE_W
canvas_y == TOP_OPTIONS_H

\* the column right of the canvas passes the test
canvas_in_bounds_Wide(c) == in_bounds(c, canvas_width + 1, canvas_height)

canvas_in_bounds(c) == in_bounds(c, canvas_width, canvas_height)

get_pixel_coords(pos) ==
    IF /\ canvas_x <= pos[1] /\ pos[1] < canvas_x + canvas_width * PIXEL_SIZE
       /\ canvas_y <= pos[2] /\ pos[2] < canvas_y + canvas_height * PIXEL_SIZE
    THEN <<(pos[1] - canvas_x) \div PIXEL_SIZE, (pos[2] - canvas_y) \div PIXEL_SIZE>>
    ELSE None

update_legacy_pixels(d) ==
    [d EXCEPT !.pixels = flatten_layers(d, canvas_width, canvas_height)]

\* PixelCanvas.__init__: the geometry fields of the new object
PixelCanvas(width, height, pixel_size, x, y) ==
    [canvas_width |-> width \div pixel_size, canvas_height |-> height \div pixel_size,
     pixel_size |-> pixel_size, x |-> x, y |-> y, width |-> width, height |-> height]

Canvas_set_pixel(d, c, color) ==
    IF canvas_in_bounds(c) /\ get_current_layer(d) # None
    THEN update_legacy_pixels(Layer_set_pixel(d, get_current_layer(d)[1], c, color))
    ELSE d

Canvas_erase_pixel(d, c) ==
    IF canvas_in_bounds(c) /\ get_current_layer(d) # None
    THEN update_legacy_pixels(Layer_erase_pixel(d, get_current_layer(d)[1], c))
    ELSE d

----------------------------------------------------------------------------
(* Tools *)

\* the keys of ToolManager.tools
ToolNames == {"brush", "eraser", "fill", "line", "rectangle", "eyedropper"}

\* Tool.__init__ with the default arguments
DEFAULT_TOOL_SIZE == 1
MAX_TOOL_SIZE == 256
Tool_init == [size |-> Max(1, DEFAULT_TOOL_SIZE), shape |-> "square"]

\* ToolManager.__init__: the six tools
ToolManager_init == [k \in ToolNames |-> Tool_init]

\* RectangleTool.__init__: the fields the subclass adds
RectangleTool_init == [start_pos |-> None, preview_pixels |-> <<>>, fill_mode |-> "hollow"]
LineTool_init == [start_pos |-> None, preview_pixels |-> <<>>]

ToolName(key) ==
    CASE key = "brush" -> "Brush"
      [] key = "eraser" -> "Eraser"
      [] key = "fill" -> "Fill"
      [] key = "line" -> "Line"
      [] key = "rectangle" -> "Rectangle"
      [] key = "eyedropper" -> "Eyedropper"

\* the circle of get_affected_pixels with a strict comparison
get_affected_pixels_Strict(size, shape, cx, cy) ==
    IF shape = "square"
    THEN LET half == size \div 2
         IN [k \in 1 .. size * size |->
                <<cx - half + ((k - 1) % size), cy - half + ((k - 1) \div size)>>]
    ELSE IF size = 1 THEN << <<cx, cy>> >>
    ELSE LET half == (size \div 2) + 1
             side == 2 * half + 1
             box == [k \in 1 .. side * side |->
                        <<cx - half + ((k - 1) % side), cy - half + ((k - 1) \div side)>>]
             Inside(p) == 4 * ((p[1] - cx) * (p[1] - cx) + (p[2] - cy) * (p[2] - cy)) < size * size
         IN SelectSeq(box, Inside)

\* the cells a tool of the given size and shape affects, in the order the
\* source appends them (row by row)
get_affected_pixels(size, shape, cx, cy) ==
    IF shape = "square"
    THEN LET half == size \div 2
         IN [k \in 1 .. size * size |->
                <<cx - half + ((k - 1) % size), cy - half + ((k - 1) \div size)>>]
    ELSE IF size = 1 THEN << <<cx, cy>> >>
    ELSE LET half == (size \div 2) + 1
             side == 2 * half + 1
             box == [k \in 1 .. side * side |->
                        <<cx - half + ((k - 1) % side), cy - half + ((k - 1) \div side)>>]
             Inside(p) == 4 * ((p[1] - cx) * (p[1] - cx) + (p[2] - cy) * (p[2] - cy)) <= size * size
         IN SelectSeq(box, Inside)

----------------------------------------------------------------------------
(* SymmetryManager *)

SymmetryManager_init ==
    [horizontal_symmetry |-> FALSE, vertical_symmetry |-> FALSE,
     diagonal_symmetry |-> FALSE, center_x |-> DEFAULT_CENTER, center_y |-> DEFAULT_CENTER]

set_canvas_center(m, width, height) ==
    [m EXCEPT !.center_x = width \div 2, !.center_y = height \div 2]

toggle_horizontal_symmetry(m) ==
    [sym |-> [m EXCEPT !.horizontal_symmetry = ~@], ret |-> ~m.horizontal_symmetry]

toggle_vertical_symmetry(m) ==
    [sym |-> [m EXCEPT !.vertical_symmetry = ~@], ret |-> ~m.vertical_symmetry]

toggle_diagonal_symmetry(m) ==
    [sym |-> [m EXCEPT !.diagonal_symmetry = ~@], ret |-> ~m.diagonal_symmetry]

\* the list points of get_symmetry_points before duplicates are removed
SymmetryCandidates(m, x, y, width, height) ==
    LET mirror_x == (m.center_x * 2) - x
        mirror_y == (m.center_y * 2) - y
        diag_x == (m.center_x * 2) - y
        diag_y == (m.center_y * 2) - x
        original == << <<x, y>> >>
        horizontal ==
            IF m.horizontal_symmetry /\ 0 <= mirror_x /\ mirror_x < width
            THEN << <<mirror_x, y>> >> ELSE <<>>
        vertical ==
            IF m.vertical_symmetry /\ 0 <= mirror_y /\ mirror_y < height
            THEN (IF m.horizontal_symmetry /\ 0 <= mirror_x /\ mirror_x < width
                  THEN << <<mirror_x, mirror_y>> >> ELSE <<>>)
                 \o << <<x, mirror_y>> >>
            ELSE <<>>
        diagonal ==
            IF m.diagonal_symmetry /\ 0 <= y /\ y < width /\ 0 <= x /\ x < height
            THEN << <<y, x>> >>
                 \o (IF /\ m.horizontal_symmetry /\ m.vertical_symmetry
                        /\ 0 <= diag_x /\ diag_x < width
                        /\ 0 <= diag_y /\ diag_y < height
                     THEN << <<diag_x, diag_y>> >> ELSE <<>>)
            ELSE <<>>
    IN original \o horizontal \o vertical \o diagonal

\* the loop over points: a point is kept if it was not seen before and lies
\* on the canvas
ValidPoints_KeepsDuplicates(points, width, height) ==
    LET InCanvas(pt) == in_bounds(pt, width, height)
    IN SelectSeq(points, InCanvas)

ValidPoints(points, width, height) ==
    LET acc[n \in 0 .. Len(points)] ==
            IF n = 0 THEN <<>>
            ELSE LET prev == acc[n - 1]
                     pt == points[n]
                 IN IF /\ \A k \in 1 .. Len(prev) : prev[k] # pt
                       /\ in_bounds(pt, width, height)
                    THEN Append(prev, pt) ELSE prev
    IN acc[Len(points)]

get_symmetry_points(m, x, y, width, height) ==
    ValidPoints(SymmetryCandidates(m, x, y, width, height),
                width, height)

----------------------------------------------------------------------------
(* FillTool *)

\* the locals of flood_fill: its arguments x, y (start), target_color and
\* fill_color, the list stack (its top is the last element) and the set
\* filled; sets counts the canvas.set_pixel calls per cell.  The loop is
\* running while stack is not empty.
NoFlood ==
    [start |-> None, target_color |-> None, fill_color |-> None,
     stack |-> <<>>, filled |-> {}, sets |-> [c \in Coords |-> 0]]

\* the call flood_fill(canvas, x, y, target_color, fill_color) up to its loop
flood_fill_enter(start, target_color, fill_color) ==
    [NoFlood EXCEPT !.start = start, !.target_color = target_color,
                    !.fill_color = fill_color, !.stack = <<start>>]

flood_fill_step_Diagonal(d, f) ==
    LET cur == f.stack[Len(f.stack)]
        rest == SubSeq(f.stack, 1, Len(f.stack) - 1)
        skip == [doc |-> d, frame |-> [f EXCEPT !.stack = rest]]
    IN IF ~canvas_in_bounds(cur) \/ cur \in f.filled THEN skip
       ELSE IF d.pixels[cur] # f.target_color THEN skip
       ELSE [doc |-> Canvas_set_pixel(d, cur, f.fill_color),
             frame |-> [f EXCEPT !.stack = rest \o << <<cur[1] + 1, cur[2] + 1>>,
                                                      <<cur[1] - 1, cur[2] - 1>>,
                                                      <<cur[1] + 1, cur[2]>>,
                                                      <<cur[1] - 1, cur[2]>>,
                                                      <<cur[1], cur[2] + 1>>,
                                                      <<cur[1], cur[2] - 1>> >>,
                                 !.filled = @ \cup {cur},
                                 !.sets[cur] = @ + 1]]

flood_fill_step_Revisits(d, f) ==
    LET cur == f.stack[Len(f.stack)]
        rest == SubSeq(f.stack, 1, Len(f.stack) - 1)
        skip == [doc |-> d, frame |-> [f EXCEPT !.stack = rest]]
    IN IF ~canvas_in_bounds(cur) THEN skip
       ELSE IF d.pixels[cur] # f.target_color THEN skip
       ELSE [doc |-> Canvas_set_pixel(d, cur, f.fill_color),
             frame |-> [f EXCEPT !.stack = rest \o << <<cur[1] + 1, cur[2]>>,
                                                      <<cur[1] - 1, cur[2]>>,
                                                      <<cur[1], cur[2] + 1>>,
                                                      <<cur[1], cur[2] - 1>> >>,
                                 !.filled = @ \cup {cur},
                                 !.sets[cur] = @ + 1]]

\* one iteration of "while stack:"
flood_fill_step(d, f) ==
    LET cur == f.stack[Len(f.stack)]
        rest == SubSeq(f.stack, 1, Len(f.stack) - 1)
        skip == [doc |-> d, frame |-> [f EXCEPT !.stack = rest]]
    IN IF ~canvas_in_bounds(cur) \/ cur \in f.filled THEN skip
       ELSE IF d.pixels[cur] # f.target_color THEN skip
       ELSE [doc |-> Canvas_set_pixel(d, cur, f.fill_color),
             frame |-> [f EXCEPT !.stack = rest \o << <<cur[1] + 1, cur[2]>>,
                                                      <<cur[1] - 1, cur[2]>>,
                                                      <<cur[1], cur[2] + 1>>,
                                                      <<cur[1], cur[2] - 1>> >>,
                                 !.filled = @ \cup {cur},
                                 !.sets[cur] = @ + 1]]

\* the loop of flood_fill run to its end
RECURSIVE flood_fill_loop(_, _)
flood_fill_loop(d, f) ==
    IF f.stack = <<>> THEN d
    ELSE LET r == flood_fill_step(d, f)
         IN flood_fill_loop(r.doc, r.frame)

\* FillTool.apply up to the flood_fill call: the locals flood_fill starts
\* with, or None when apply returns before it
FillTool_apply_enter(d, pos) ==
    LET coords == get_pixel_coords(pos)
    IN IF coords = None THEN None
       ELSE IF d.pixels[coords] = d.current_color THEN None
       ELSE flood_fill_enter(coords, d.pixels[coords], d.current_color)

FillTool_apply(d, pos) ==
    LET f == FillTool_apply_enter(d, pos)
    IN IF f = None THEN d ELSE flood_fill_loop(d, f)

----------------------------------------------------------------------------
(* main: change tracking of a gesture *)

\* a dict {(x, y): (old_color, new_color)} is a function over Coords whose
\* value <<>> means "no entry"
NoChanges == [c \in Coords |-> <<>>]
Keys(changes) == {c \in Coords : changes[c] # <<>>}

record_pixel_change(changes, d, c, new_color) ==
    IF c \in Keys(changes) THEN changes
    ELSE [changes EXCEPT ![c] = <<d.pixels[c], new_color>>]

apply_tool_with_undo_tracking_at_pixel(d, changes, tool, c) ==
    IF ~canvas_in_bounds(c) THEN [doc |-> d, changes |-> changes]
    ELSE IF ToolName(tool.key) = "Brush"
         THEN [doc |-> Canvas_set_pixel(d, c, d.current_color),
               changes |-> record_pixel_change(changes, d, c, d.current_color)]
    ELSE IF ToolName(tool.key) = "Eraser"
         THEN [doc |-> Canvas_erase_pixel(d, c),
               changes |-> record_pixel_change(changes, d, c, None)]
    ELSE [doc |-> d, changes |-> changes]

\* the loop "for px, py in pixels" over cells[lo .. hi]; the list is walked in
\* order, the first half evaluated before the second half is entered
RECURSIVE TrackRange(_, _, _, _, _, _)
TrackRange(d, changes, tool, cells, lo, hi) ==
    IF lo > hi THEN [doc |-> d, changes |-> changes]
    ELSE IF lo = hi
         THEN apply_tool_with_undo_tracking_at_pixel(d, changes, tool, cells[lo])
    ELSE LET mid == (lo + hi) \div 2
             first == TrackRange(d, changes, tool, cells, lo, mid)
         IN IF first.doc = d /\ first.changes = changes
            THEN TrackRange(d, changes, tool, cells, mid + 1, hi)
            ELSE TrackRange(first.doc, first.changes, tool, cells, mid + 1, hi)

TrackCells(d, changes, tool, cells) == TrackRange(d, changes, tool, cells, 1, Len(cells))

\* the brush / eraser branch of apply_tool_with_undo_tracking, from the cell
\* get_pixel_coords returned
apply_tool_at_coords(d, changes, tool, coords) ==
    IF coords = None THEN [doc |-> d, changes |-> changes]
    ELSE LET cells == get_affected_pixels(tool.size, tool.shape, coords[1], coords[2])
         IN TrackCells(d, changes, tool, cells)

apply_fill_tracking_RecordsAll(d, changes, pos) ==
    LET d2 == FillTool_apply(d, pos)
    IN [doc |-> d2,
        changes |-> Eval([c \in Coords |->
                            IF d2.pixels[c] # None
                            THEN record_pixel_change(changes, d2, c, d2.pixels[c])[c]
                            ELSE changes[c]])]

\* the Fill branch of apply_tool_with_undo_tracking: the cells whose value in
\* canvas.pixels differs after tool.apply are recorded, and record_pixel_change
\* reads the old colour from canvas.pixels as it is when it is called
apply_fill_tracking(d, changes, pos) ==
    LET d2 == FillTool_apply(d, pos)
        differs == {c \in Coords : d2.pixels[c] # d.pixels[c]}
    IN [doc |-> d2,
        changes |-> Eval([c \in Coords |->
                            IF c \in differs
                            THEN record_pixel_change(changes, d2, c, d2.pixels[c])[c]
                            ELSE changes[c]])]

apply_tool_with_undo_tracking(d, changes, tool, pos) ==
    IF get_pixel_coords(pos) = None THEN [doc |-> d, changes |-> changes]
    ELSE IF ToolName(tool.key) = "Fill" THEN apply_fill_tracking(d, changes, pos)
    ELSE apply_tool_at_coords(d, changes, tool, get_pixel_coords(pos))

Abs(a) == IF a < 0 THEN -a ELSE a

\* steps = max(abs(dx), abs(dy)) of the MOUSEMOTION interpolation
SegmentSteps(p1, p2) == Max(Abs(p2[1] - p1[1]), Abs(p2[2] - p1[2]))

\* the i-th interpolated point: int(x1 + (dx * i) / steps), coordinates >= 0
SegmentPoint(p1, p2, i) ==
    <<p1[1] + (((p2[1] - p1[1]) * i) \div SegmentSteps(p1, p2)),
      p1[2] + (((p2[2] - p1[2]) * i) \div SegmentSteps(p1, p2))>>

\* the cells (or None) the interpolated points 0 .. steps fall into, in order,
\* a run of points in one cell listed once: the second and later calls of
\* apply_tool_with_undo_tracking in a run record nothing and rewrite the value
\* the first one wrote
SegmentCoords(p1, p2) ==
    LET coords(i) == get_pixel_coords(SegmentPoint(p1, p2, i))
        first == {i \in 0 .. SegmentSteps(p1, p2) : i = 0 \/ coords(i) # coords(i - 1)}
        nth(k) == CHOOSE i \in first : Cardinality({j \in first : j < i}) = k - 1
    IN [k \in 1 .. Cardinality(first) |-> coords(nth(k))]

\* the interpolation loop of MOUSEMOTION, "for i in range(steps + 1)":
\* acc[n] is the state after the first n runs of points
TrackSegment(d, changes, tool, p1, p2) ==
    IF SegmentSteps(p1, p2) = 0 THEN apply_tool_with_undo_tracking(d, changes, tool, p2)
    ELSE LET runs == SegmentCoords(p1, p2)
             acc[n \in 0 .. Len(runs)] ==
                 IF n = 0 THEN [doc |-> d, changes |-> changes]
                 ELSE LET prev == acc[n - 1]
                      IN apply_tool_at_coords(prev.doc, prev.changes, tool, runs[n])
         IN acc[Len(runs)]

----------------------------------------------------------------------------
(* Command (DrawCommand and FillCommand have the same execute and undo) *)

DrawCommand(id, pixels_changed, already_executed) ==
    [id |-> id, kind |-> "Draw", pixels_changed |-> pixels_changed,
     already_executed |-> already_executed]

\* "for (x, y), (old, new) in pixels_changed.items()": every cell is written
\* through canvas.set_pixel / canvas.erase_pixel with component k of its pair
WriteAll(d, pixels_changed, k) ==
    LET inb == {c \in Keys(pixels_changed) : canvas_in_bounds(c)}
    IN IF inb = {} \/ get_current_layer(d) = None THEN d
       ELSE LET i == get_current_layer(d)[1]
                ref == d.layers[i + 1].pix
            IN update_legacy_pixels(
                 [d EXCEPT !.store[ref] =
                     Eval([c \in Coords |-> IF c \in inb THEN pixels_changed[c][k]
                                            ELSE @[c]])])

FillCommand(id, pixels_changed, already_executed) ==
    [id |-> id, kind |-> "Fill", pixels_changed |-> pixels_changed,
     already_executed |-> already_executed]

\* execute that writes whatever the flag says
Command_execute_Always(d, cmd) ==
    [doc |-> WriteAll(d, cmd.pixels_changed, 2),
     cmd |-> [cmd EXCEPT !.already_executed = TRUE]]

Command_execute(d, cmd) ==
    [doc |-> IF ~cmd.already_executed THEN WriteAll(d, cmd.pixels_changed, 2) ELSE d,
     cmd |-> [cmd EXCEPT !.already_executed = TRUE]]

Command_undo_WritesNew(d, cmd) ==
    [doc |-> WriteAll(d, cmd.pixels_changed, 2),
     cmd |-> [cmd EXCEPT !.already_executed = FALSE]]

Command_undo(d, cmd) ==
    [doc |-> WriteAll(d, cmd.pixels_changed, 1),
     cmd |-> [cmd EXCEPT !.already_executed = FALSE]]

----------------------------------------------------------------------------
(* UndoRedoManager *)

Undo == [history |-> history, current_index |-> current_index,
         max_history |-> max_history]

Trim_KeepAll(u) == u

Trim(u) ==
    IF Len(u.history) > u.max_history
    THEN LET h == SubSeq(u.history, Len(u.history) - u.max_history + 1, Len(u.history))
         IN [u EXCEPT !.history = h, !.current_index = Len(h) - 1]
    ELSE u

add_command(u, command) ==
    Trim([u EXCEPT !.history = Append(SubSeq(u.history, 1, u.current_index + 1), command),
                   !.current_index = u.current_index + 1])

execute_command_NoTruncate(u, d, command) ==
    LET e == Command_execute(d, command)
    IN [undo |-> Trim([u EXCEPT !.history = Append(u.history, e.cmd),
                                !.current_index = u.current_index + 1]),
        doc |-> e.doc]

execute_command(u, d, command) ==
    LET e == Command_execute(d, command)
    IN [undo |-> Trim([u EXCEPT !.history =
                              Append(SubSeq(u.history, 1, u.current_index + 1), e.cmd),
                          !.current_index = u.current_index + 1]),
        doc |-> e.doc]

can_undo(u) == u.current_index >= 0

can_redo(u) == u.current_index < Len(u.history) - 1

undo_AlwaysDecrement(u, d) ==
    IF can_undo(u)
    THEN LET r == Command_undo(d, u.history[u.current_index + 1])
         IN [undo |-> [u EXCEPT !.history[u.current_index + 1] = r.cmd,
                                !.current_index = u.current_index - 1],
             doc |-> r.doc, ret |-> TRUE]
    ELSE [undo |-> [u EXCEPT !.current_index = u.current_index - 1],
          doc |-> d, ret |-> FALSE]

undo(u, d) ==
    IF can_undo(u)
    THEN LET r == Command_undo(d, u.history[u.current_index + 1])
         IN [undo |-> [u EXCEPT !.history[u.current_index + 1] = r.cmd,
                                !.current_index = u.current_index - 1],
             doc |-> r.doc, ret |-> TRUE]
    ELSE [undo |-> u, doc |-> d, ret |-> FALSE]

redo(u, d) ==
    IF can_redo(u)
    THEN LET i == u.current_index + 1
             r == Command_execute(d, u.history[i + 1])
         IN [undo |-> [u EXCEPT !.history[i + 1] = r.cmd, !.current_index = i],
             doc |-> r.doc, ret |-> TRUE]
    ELSE [undo |-> u, doc |-> d, ret |-> FALSE]

clear(u) == [u EXCEPT !.history = <<>>, !.current_index = -1]

----------------------------------------------------------------------------
(* State plumbing *)

SetDoc(d) ==
    /\ layers' = d.layers
    /\ current_layer_index' = d.current_layer_index
    /\ store' = d.store
    /\ created' = d.created
    /\ pixels' = d.pixels
    /\ current_color' = d.current_color

SetUndo(u) ==
    /\ history' = u.history
    /\ current_index' = u.current_index
    /\ max_history' = u.max_history

docVars == <<layers, current_layer_index, store, created, pixels, current_color>>
undoVars == <<history, current_index, max_history>>
editorVars == <<current_tool_name, drawing, last_pos, current_stroke_changes>>
callVars == <<lastOp, ret, run>>

RetNone == <<>>
RetBool(b) == <<b>>

\* run counts the calls made on the UndoRedoManager most recently: k undo
\* calls in a row, then p pushes in a row, then u undo calls in a row, then r
\* redo calls in a row
RunCap == MaxCmds + 1
RunZero == [k |-> 0, p |-> 0, u |-> 0, r |-> 0]
RunPush(rn) ==
    IF rn.u = 0 /\ rn.r = 0 THEN [rn EXCEPT !.p = Min(@ + 1, RunCap)]
    ELSE [k |-> IF rn.r = 0 THEN rn.u ELSE 0, p |-> 1, u |-> 0, r |-> 0]
RunUndo(rn) ==
    IF rn.r = 0 THEN [rn EXCEPT !.u = Min(@ + 1, RunCap)]
    ELSE [k |-> 0, p |-> 0, u |-> 1, r |-> 0]
RunRedo(rn) == [rn EXCEPT !.r = Min(@ + 1, RunCap)]

ActivePixels == store[layers[current_layer_index + 1].pix]

----------------------------------------------------------------------------
(* Initial states *)

\* LayerManager.__init__ inside PixelCanvas.__init__
InitDoc ==
    /\ layers = <<Layer(1, TRUE, OPAQUE)>>
    /\ current_layer_index = 0
    /\ store = [r \in Refs |-> EmptyPixels]
    /\ created = 1
    /\ pixels = EmptyPixels
    /\ current_color = BLACK

\* the editor's objects and interaction state after construction
InitEditor ==
    /\ history = <<>>
    /\ current_index = -1
    /\ ncmds = 0
    /\ current_tool_name = "brush"
    /\ drawing = FALSE
    /\ last_pos = None
    /\ current_stroke_changes = NoChanges
    /\ lastOp = [name |-> "init"]
    /\ ret = RetNone
    /\ run = RunZero
    /\ snaps = <<>>
    /\ pre_gesture = EmptyPixels
    /\ edits = 0
    /\ midkeys = 0
    /\ flood = NoFlood

InitRest ==
    /\ InitEditor
    /\ symmetry = SymmetryManager_init

\* the editor scene holds a canvas of CanvasW x CanvasH cells
InitScene ==
    /\ scene = "editor"
    /\ nf_width_text = <<CanvasW>>
    /\ nf_height_text = <<CanvasH>>
    /\ nf_active = "width"
    /\ canvas = <<[PixelCanvas(CanvasW * PIXEL_SIZE, CanvasH * PIXEL_SIZE, PIXEL_SIZE, 0, 0)
                      EXCEPT !.x = canvas_x, !.y = canvas_y]>>
    /\ current_tool_mode = "normal"
    /\ preview_start_pos = None
    /\ tools = ToolManager_init
    /\ rect_tool = RectangleTool_init
    /\ line_tool = LineTool_init

\* the editor scene right after a canvas was created
Init == InitDoc /\ InitRest /\ InitScene /\ max_history = DEFAULT_MAX_HISTORY

\* an UndoRedoManager(max_history = M) on a fresh canvas
InitHistory == InitDoc /\ InitRest /\ InitScene /\ max_history \in 1 .. MaxM

----------------------------------------------------------------------------
(* Calls on the UndoRedoManager *)

HistCells == {<<0, 0>>}
HistColors == {None, BLACK}
\* the pixels_changed dicts of the commands that are pushed: the empty dict
\* and the dicts that change one cell
CmdDicts ==
    {NoChanges} \cup {[NoChanges EXCEPT ![x] = on] :
                         x \in HistCells,
                         on \in {q \in HistColors \X HistColors : q[1] # q[2]}}

ExecuteCommand(pc, ae) ==
    /\ ncmds < MaxCmds
    /\ LET r == execute_command(Undo, Doc, DrawCommand(ncmds + 1, pc, ae))
       IN SetUndo(r.undo) /\ SetDoc(r.doc)
    /\ ncmds' = ncmds + 1
    /\ lastOp' = [name |-> "execute_command", cmd |-> ncmds + 1]
    /\ ret' = RetNone
    /\ run' = RunPush(run)
    /\ UNCHANGED <<editorVars, snaps, pre_gesture, edits, midkeys, flood, symmetry, sceneVars>>

AddCommand(pc, ae) ==
    /\ ncmds < MaxCmds
    /\ SetUndo(add_command(Undo, DrawCommand(ncmds + 1, pc, ae)))
    /\ ncmds' = ncmds + 1
    /\ lastOp' = [name |-> "add_command", cmd |-> ncmds + 1]
    /\ ret' = RetNone
    /\ run' = RunPush(run)
    /\ UNCHANGED <<docVars, editorVars, snaps, pre_gesture, edits, midkeys, flood, symmetry, sceneVars>>

UndoCall ==
    /\ LET r == undo(Undo, Doc)
       IN SetUndo(r.undo) /\ SetDoc(r.doc) /\ ret' = RetBool(r.ret)
    /\ lastOp' = [name |-> "undo"]
    /\ run' = RunUndo(run)
    /\ UNCHANGED <<ncmds, editorVars, snaps, pre_gesture, edits, midkeys, flood, symmetry, sceneVars>>

RedoCall ==
    /\ LET r == redo(Undo, Doc)
       IN SetUndo(r.undo) /\ SetDoc(r.doc) /\ ret' = RetBool(r.ret)
    /\ lastOp' = [name |-> "redo"]
    /\ run' = RunRedo(run)
    /\ UNCHANGED <<ncmds, editorVars, snaps, pre_gesture, edits, midkeys, flood, symmetry, sceneVars>>

ClearCall ==
    /\ SetUndo(clear(Undo))
    /\ lastOp' = [name |-> "clear"]
    /\ ret' = RetNone
    /\ run' = RunZero
    /\ UNCHANGED <<docVars, ncmds, editorVars, snaps, pre_gesture, edits, midkeys, flood, symmetry, sceneVars>>

NextHistory ==
    \/ \E pc \in CmdDicts, ae \in BOOLEAN : ExecuteCommand(pc, ae)
    \/ \E pc \in CmdDicts, ae \in BOOLEAN : AddCommand(pc, ae)
    \/ UndoCall
    \/ RedoCall
    \/ ClearCall

SpecHistory == InitHistory /\ [][NextHistory]_vars

----------------------------------------------------------------------------
(* main: the editor scene's event handlers *)

\* tool_manager.get_current_tool()
CurrentTool == [key |-> current_tool_name, size |-> tools[current_tool_name].size,
                shape |-> tools[current_tool_name].shape]

\* the screen point in the middle of a cell
CellCentre(c) ==
    <<canvas_x + c[1] * PIXEL_SIZE + PIXEL_SIZE \div 2,
      canvas_y + c[2] * PIXEL_SIZE + PIXEL_SIZE \div 2>>

\* mouse positions inside the canvas holder: the middle of the first and of
\* the last cell of the top row and of a cell right of the canvas; a move
\* between two of them crosses the cells in between
MouseCells == {<<0, 0>>, <<CanvasW - 1, 0>>, <<CanvasW, 0>>}
MousePoints == {CellCentre(c) : c \in MouseCells}
\* the swatch that is clicked (black is the colour a new canvas starts with)
PaletteColors == {RED}
ToolKeys == {"brush", "eraser"}

\* MOUSEBUTTONDOWN, button 1, inside the holder, brush or eraser selected
MouseDown(pos) ==
    /\ ~drawing
    /\ ncmds < MaxStrokes
    /\ current_tool_name \in {"brush", "eraser"}
    /\ LET r == apply_tool_with_undo_tracking(Doc, NoChanges, CurrentTool, pos)
       IN SetDoc(r.doc) /\ current_stroke_changes' = r.changes
    /\ drawing' = TRUE
    /\ last_pos' = pos
    /\ pre_gesture' = ActivePixels
    /\ UNCHANGED <<undoVars, ncmds, current_tool_name, callVars, snaps, edits, midkeys, flood, symmetry, sceneVars>>

\* MOUSEMOTION while the button is held
MouseMove(pos) ==
    /\ drawing
    /\ IF last_pos # None
       THEN IF current_tool_name = "fill"
            THEN /\ drawing' = FALSE
                 /\ last_pos' = None
                 /\ UNCHANGED <<docVars, current_stroke_changes>>
            ELSE LET r == TrackSegment(Doc, current_stroke_changes, CurrentTool,
                                       last_pos, pos)
                 IN /\ SetDoc(r.doc)
                    /\ current_stroke_changes' = r.changes
                    /\ last_pos' = pos
                    /\ drawing' = drawing
       ELSE /\ last_pos' = pos
            /\ UNCHANGED <<docVars, current_stroke_changes, drawing>>
    /\ UNCHANGED <<undoVars, ncmds, current_tool_name, callVars, snaps, pre_gesture, edits, midkeys, flood, symmetry, sceneVars>>

\* the active layer's pixels after each command of a history
PushSnap(u, snap) ==
    LET sn == Append(SubSeq(snaps, 1, current_index + 1), snap)
    IN SubSeq(sn, Len(sn) - Len(u.history) + 1, Len(sn))

\* MOUSEBUTTONUP, button 1, in the normal (brush / eraser) mode
MouseUp ==
    /\ drawing
    /\ current_tool_mode = "normal"
    /\ IF Keys(current_stroke_changes) # {}
       THEN LET r == execute_command(Undo, Doc,
                                     DrawCommand(ncmds + 1, current_stroke_changes, TRUE))
            IN /\ SetUndo(r.undo)
               /\ SetDoc(r.doc)
               /\ ncmds' = ncmds + 1
               /\ current_stroke_changes' = NoChanges
               /\ snaps' = PushSnap(r.undo, LayerPixels(r.doc, r.doc.current_layer_index))
       ELSE UNCHANGED <<docVars, undoVars, ncmds, current_stroke_changes, snaps>>
    /\ drawing' = FALSE
    /\ last_pos' = None
    /\ pre_gesture' = EmptyPixels
    /\ UNCHANGED <<current_tool_name, callVars, edits, midkeys, flood, symmetry, sceneVars>>

\* a key press is counted when it arrives during a gesture
KeyDown ==
    /\ drawing => midkeys < MaxMidKeys
    /\ midkeys' = IF drawing THEN midkeys + 1 ELSE midkeys

\* KEYDOWN Ctrl+Z
KeyUndo ==
    /\ KeyDown
    /\ LET r == undo(Undo, Doc)
       IN SetUndo(r.undo) /\ SetDoc(r.doc)
    /\ UNCHANGED <<ncmds, editorVars, callVars, snaps, pre_gesture, edits, flood, symmetry, sceneVars>>

\* KEYDOWN Ctrl+Y
KeyRedo ==
    /\ KeyDown
    /\ LET r == redo(Undo, Doc)
       IN SetUndo(r.undo) /\ SetDoc(r.doc)
    /\ UNCHANGED <<ncmds, editorVars, callVars, snaps, pre_gesture, edits, flood, symmetry, sceneVars>>

\* KEYDOWN B / E: tool_manager.set_tool
KeyTool(key) ==
    /\ KeyDown
    /\ current_tool_name' = key
    /\ UNCHANGED <<docVars, undoVars, ncmds, drawing, last_pos, current_stroke_changes,
                   callVars, snaps, pre_gesture, edits, flood, symmetry, sceneVars>>

\* MOUSEBUTTONDOWN on a palette swatch
PaletteClick(color) ==
    /\ ~drawing
    /\ current_color' = color
    /\ UNCHANGED <<layers, current_layer_index, store, created, pixels, undoVars, ncmds,
                   editorVars, callVars, snaps, pre_gesture, edits, midkeys, flood, symmetry, sceneVars>>

\* every event in any order
Next ==
    \/ \E pos \in MousePoints : MouseDown(pos)
    \/ \E pos \in MousePoints : MouseMove(pos)
    \/ MouseUp
    \/ KeyUndo
    \/ KeyRedo
    \/ \E key \in ToolKeys : KeyTool(key)
    \/ \E color \in PaletteColors : PaletteClick(color)

Spec == Init /\ [][Next]_vars

\* gestures one after another: keys are pressed only between two gestures
NextStrokes ==
    \/ \E pos \in MousePoints : MouseDown(pos)
    \/ \E pos \in MousePoints : MouseMove(pos)
    \/ MouseUp
    \/ ~drawing /\ KeyUndo
    \/ ~drawing /\ KeyRedo
    \/ ~drawing /\ \E key \in ToolKeys : KeyTool(key)
    \/ \E color \in PaletteColors : PaletteClick(color)

SpecStrokes == Init /\ [][NextStrokes]_vars

\* MOUSEBUTTONDOWN, button 1, inside the holder, fill selected
FillClick(pos) ==
    /\ ~drawing
    /\ ncmds < MaxStrokes
    /\ current_tool_name = "fill"
    /\ LET r == apply_tool_with_undo_tracking(Doc, NoChanges, CurrentTool, pos)
       IN /\ current_stroke_changes' = r.changes
          /\ lastOp' = [name |-> "fill_click", coords |-> get_pixel_coords(pos),
                        recorded |-> Keys(r.changes)]
          /\ IF Keys(r.changes) # {}
             THEN LET e == execute_command(Undo, r.doc,
                                           FillCommand(ncmds + 1, r.changes, TRUE))
                  IN /\ SetUndo(e.undo)
                     /\ SetDoc(e.doc)
                     /\ ncmds' = ncmds + 1
                     /\ snaps' = PushSnap(e.undo, LayerPixels(e.doc, e.doc.current_layer_index))
             ELSE /\ SetDoc(r.doc)
                  /\ UNCHANGED <<undoVars, ncmds, snaps>>
    /\ UNCHANGED <<current_tool_name, drawing, last_pos, ret, run, pre_gesture, edits,
                   midkeys, flood, symmetry, sceneVars>>

FillKeys == {"brush", "fill"}

\* brush gestures and fill clicks one after another, keys pressed in between
NextFillClicks ==
    \/ \E pos \in MousePoints : MouseDown(pos)
    \/ \E pos \in MousePoints : MouseMove(pos)
    \/ MouseUp
    \/ \E pos \in MousePoints : FillClick(pos)
    \/ ~drawing /\ KeyUndo
    \/ ~drawing /\ KeyRedo
    \/ ~drawing /\ \E key \in FillKeys : KeyTool(key)
    \/ \E color \in PaletteColors : PaletteClick(color)

SpecFillClicks == Init /\ [][NextFillClicks]_vars

----------------------------------------------------------------------------
(* The LayerManager driven through its public methods and its layers' *)
(* public methods and attributes                                       *)

LayerArgs == (0 - MaxArg) .. MaxLayers
OptLayerArgs == {None} \cup {<<i>> : i \in LayerArgs}
EditArgs == (0 - MaxArg) .. MaxCreated
OptEditArgs == {None} \cup {<<i>> : i \in EditArgs}
OpacityLevels == {OPAQUE \div 2, OPAQUE}
LayerIndices == 0 .. Len(layers) - 1
\* the cell the direct Layer calls write
PaintCells == {<<0, 0>>}

\* a method of the LayerManager, or of one of its layers, returns r
LayerReturns(d, r, name) ==
    /\ SetDoc(d)
    /\ ret' = r
    /\ lastOp' = [name |-> name]
    /\ UNCHANGED <<undoVars, ncmds, editorVars, run, snaps, pre_gesture, midkeys, flood, symmetry, sceneVars>>

LayerCall(d, r) == LayerReturns(d, r, "layer")

\* a direct access to a Layer object is counted
LayerEdit(d) ==
    /\ edits < MaxEdits
    /\ edits' = edits + 1
    /\ LayerCall(d, RetNone)

AddLayer(index) ==
    /\ LayerCall(add_layer(Doc, index), RetBool(TRUE))
    /\ UNCHANGED edits

RemoveLayer(index) ==
    /\ LET r == remove_layer(Doc, index)
       IN LayerCall(r.doc, RetBool(r.ret))
    /\ UNCHANGED edits

MoveLayer(from_index, to_index) ==
    /\ LET r == move_layer(Doc, from_index, to_index)
       IN LayerCall(r.doc, RetBool(r.ret))
    /\ UNCHANGED edits

SetCurrentLayer(index) ==
    /\ LET r == set_current_layer(Doc, index)
       IN LayerCall(r.doc, RetBool(r.ret))
    /\ UNCHANGED edits

DuplicateLayer(index) ==
    /\ LET r == duplicate_layer(Doc, index)
       IN LayerCall(r.doc, RetBool(r.ret))
    /\ UNCHANGED edits

MergeDown(index) ==
    /\ LET r == merge_down(Doc, index)
       IN LayerReturns(r.doc, RetBool(r.ret), IF r.ret THEN "merge_down" ELSE "layer")
    /\ UNCHANGED edits

\* layer.set_pixel(x, y, color) on the layer at position i
LayerSetPixel(i, c, color) ==
    /\ i \in LayerIndices
    /\ LayerEdit(Layer_set_pixel(Doc, i, c, color))

\* layer.erase_pixel(x, y) on the layer at position i
LayerErasePixel(i, c) ==
    /\ i \in LayerIndices
    /\ LayerEdit(Layer_erase_pixel(Doc, i, c))

\* layer.visible = not layer.visible
ToggleVisible(i) ==
    /\ i \in LayerIndices
    /\ LayerEdit([Doc EXCEPT !.layers[i + 1].visible = ~@])

\* layer.opacity = q / OPAQUE
SetOpacity(i, q) ==
    /\ i \in LayerIndices
    /\ LayerEdit([Doc EXCEPT !.layers[i + 1].opacity = q])

\* the methods of the LayerManager with any arguments, on layers nobody paints
NextLayers ==
    \/ \E index \in OptLayerArgs : created < MaxLayers /\ AddLayer(index)
    \/ \E index \in LayerArgs : RemoveLayer(index)
    \/ \E from_index \in LayerArgs, to_index \in LayerArgs : MoveLayer(from_index, to_index)
    \/ \E index \in LayerArgs : SetCurrentLayer(index)
    \/ \E index \in OptLayerArgs : created < MaxLayers /\ DuplicateLayer(index)
    \/ \E index \in OptLayerArgs : MergeDown(index)

SpecLayers == Init /\ [][NextLayers]_vars

\* layers that are appended, selected, duplicated, merged and removed while
\* their pixels, visibility and opacity are edited
NextLayerEdits ==
    \/ created < MaxCreated /\ AddLayer(None)
    \/ \E index \in EditArgs : RemoveLayer(index)
    \/ \E index \in EditArgs : SetCurrentLayer(index)
    \/ \E index \in OptEditArgs : created < MaxCreated /\ DuplicateLayer(index)
    \/ \E index \in OptEditArgs : MergeDown(index)
    \/ \E i \in EditArgs, c \in PaintCells, color \in PaletteColors :
           LayerSetPixel(i, c, color)
    \/ \E i \in EditArgs, c \in PaintCells : LayerErasePixel(i, c)
    \/ \E i \in EditArgs : ToggleVisible(i)
    \/ \E i \in EditArgs, q \in OpacityLevels : SetOpacity(i, q)

SpecLayerEdits == Init /\ [][NextLayerEdits]_vars

----------------------------------------------------------------------------
(* flatten_layers called on the stacks of layers that can be built *)

\* the cells the layers of a stack have entries at: a canvas cell and a cell
\* right of the canvas (Layer.set_pixel checks no bounds)
FlatCells == {<<0, 0>>, <<CanvasW, 0>>}
FlatColors == {None, RED, BLACK}
FlatDicts ==
    {[c \in Coords |-> IF c \in FlatCells THEN f[c] ELSE None] :
        f \in [FlatCells -> FlatColors]}
\* the widths flatten_layers is called with: the canvas's and one less
FlatWidths == {canvas_width - 1, canvas_width}

\* a LayerManager after add_layer calls and direct edits of its layers
InitFlatten ==
    /\ \E n \in 1 .. MaxFlat :
           \E vis \in [1 .. n -> BOOLEAN], op \in [1 .. n -> OpacityLevels],
              px \in [1 .. n -> FlatDicts] :
               /\ layers = [k \in 1 .. n |-> Layer(k, vis[k], op[k])]
               /\ store = [r \in Refs |-> IF r <= n THEN px[r] ELSE EmptyPixels]
               /\ created = n
               /\ current_layer_index = n - 1
    /\ pixels = EmptyPixels
    /\ current_color = BLACK
    /\ InitRest
    /\ InitScene
    /\ max_history = DEFAULT_MAX_HISTORY

FlattenLayers(w, h) ==
    /\ LET r == flatten_call(Doc, w, h)
       IN LayerReturns(r.doc, <<r.ret>>, "flatten_layers")
    /\ UNCHANGED edits

NextFlatten == \E w \in FlatWidths : FlattenLayers(w, canvas_height)

SpecFlatten == InitFlatten /\ [][NextFlatten]_vars

----------------------------------------------------------------------------
(* FillTool.apply called on a canvas, its loop taken one iteration at a time *)

CanvasCells == {c \in Coords : canvas_in_bounds(c)}
\* what the active layer holds before a fill: nothing or red at each cell
FillPatterns ==
    {[c \in Coords |-> IF c \in CanvasCells THEN f[c] ELSE None] :
        f \in [CanvasCells -> {None, RED}]}
\* a layer that covers the whole canvas
CoverPixels == [c \in Coords |-> IF c \in CanvasCells THEN RED ELSE None]
FillColors == {BLACK, RED}
\* the points clicked: the middle of every canvas cell and of the cells right
\* of the canvas
FillPoints == {CellCentre(c) : c \in Coords}

\* a canvas whose bottom layer is active, is shown or hidden, and lies alone
\* or under an opaque layer that covers it; canvas.pixels is up to date
InitFill ==
    /\ \E p \in FillPatterns, vis \in BOOLEAN, covered \in BOOLEAN, color \in FillColors :
           LET ls == IF covered THEN <<Layer(1, vis, OPAQUE), Layer(2, TRUE, OPAQUE)>>
                     ELSE <<Layer(1, vis, OPAQUE)>>
               st == [r \in Refs |-> IF r = 1 THEN p
                                     ELSE IF covered /\ r = 2 THEN CoverPixels
                                     ELSE EmptyPixels]
               d == [layers |-> ls, current_layer_index |-> 0, store |-> st,
                     created |-> Len(ls), pixels |-> EmptyPixels, current_color |-> color]
           IN /\ layers = ls
              /\ current_layer_index = 0
              /\ store = st
              /\ created = Len(ls)
              /\ pixels = update_legacy_pixels(d).pixels
              /\ current_color = color
    /\ InitRest
    /\ InitScene
    /\ max_history = DEFAULT_MAX_HISTORY

\* tool.apply(canvas, mouse_x, mouse_y) up to the loop of flood_fill
FillApply(pos) ==
    /\ flood.stack = <<>>
    /\ LET f == FillTool_apply_enter(Doc, pos)
       IN IF f = None THEN UNCHANGED <<flood, pre_gesture>>
          ELSE flood' = f /\ pre_gesture' = ActivePixels
    /\ UNCHANGED <<docVars, undoVars, ncmds, editorVars, callVars, snaps, edits, midkeys, symmetry, sceneVars>>

\* one iteration of the loop of flood_fill
FloodStep ==
    /\ flood.stack # <<>>
    /\ LET r == flood_fill_step(Doc, flood)
       IN SetDoc(r.doc) /\ flood' = r.frame
    /\ UNCHANGED <<undoVars, ncmds, editorVars, callVars, snaps, pre_gesture, edits, midkeys, symmetry, sceneVars>>

NextFill ==
    \/ \E pos \in FillPoints : FillApply(pos)
    \/ FloodStep

SpecFill == InitFill /\ [][NextFill]_vars

\* a loop that is running takes its next iteration
SpecFillLive == SpecFill /\ WF_vars(FloodStep)

----------------------------------------------------------------------------
(* Calls on the SymmetryManager *)

SymWidths == 1 .. MaxSymW
SymHeights == 1 .. MaxSymH
\* the points asked for: those of the largest canvas and a column and a row
\* beyond it
SymXs == 0 .. MaxSymW
SymYs == 0 .. MaxSymH

SymmetryCall(m, r, name) ==
    /\ symmetry' = m
    /\ ret' = r
    /\ lastOp' = name
    /\ UNCHANGED <<docVars, undoVars, ncmds, editorVars, run, snaps, pre_gesture, edits,
                   midkeys, flood, sceneVars>>

SetCanvasCenter(width, height) ==
    SymmetryCall(set_canvas_center(symmetry, width, height), RetNone,
                 [name |-> "set_canvas_center"])

ToggleHorizontal ==
    LET r == toggle_horizontal_symmetry(symmetry)
    IN SymmetryCall(r.sym, RetBool(r.ret), [name |-> "toggle"])

ToggleVertical ==
    LET r == toggle_vertical_symmetry(symmetry)
    IN SymmetryCall(r.sym, RetBool(r.ret), [name |-> "toggle"])

ToggleDiagonal ==
    LET r == toggle_diagonal_symmetry(symmetry)
    IN SymmetryCall(r.sym, RetBool(r.ret), [name |-> "toggle"])

GetSymmetryPoints(x, y, width, height) ==
    SymmetryCall(symmetry, <<get_symmetry_points(symmetry, x, y, width, height)>>,
                 [name |-> "get_symmetry_points", x |-> x, y |-> y,
                  width |-> width, height |-> height])

NextSymmetry ==
    \/ \E width \in SymWidths, height \in SymHeights : SetCanvasCenter(width, height)
    \/ ToggleHorizontal
    \/ ToggleVertical
    \/ ToggleDiagonal
    \/ \E x \in SymXs, y \in SymYs, width \in SymWidths, height \in SymHeights :
           GetSymmetryPoints(x, y, width, height)

SpecSymmetry == Init /\ [][NextSymmetry]_vars

----------------------------------------------------------------------------
(* Properties of the UndoRedoManager, under SpecHistory *)

\* C1: with one visible opaque layer, the pixels between two gestures are
\* those the command at current_index left behind: undoing all N commands
\* gives back the pixels from before the first, redoing them the pixels after
\* each, and the flattened cache agrees with the layer on the canvas cells.
C1_UndoRedoRoundTrip ==
    ~drawing =>
        /\ ActivePixels = (IF current_index = -1 THEN EmptyPixels
                           ELSE snaps[current_index + 1])
        /\ \A c \in Coords : canvas_in_bounds(c) => pixels[c] = ActivePixels[c]

\* two different gestures were pushed and both are undone
C1_Witness ==
    /\ ~drawing
    /\ Len(history) = 2
    /\ current_index = -1
    /\ Len(snaps) = 2
    /\ snaps[1] # EmptyPixels
    /\ snaps[2] # snaps[1]
    /\ snaps[2] # EmptyPixels
    /\ ActivePixels = EmptyPixels

\* the step of MOUSEBUTTONUP that pushes the gesture's command
GesturePushed == drawing /\ ~drawing' /\ ncmds' = ncmds + 1

\* C2: the command a brush / eraser drag pushes is the only one added, and for
\* every cell it lists it stores as new value the value the cell has when the
\* gesture ends, whatever events arrived during the drag.
C2_GestureCommandIsExact ==
    [][GesturePushed =>
          /\ current_index' = Len(history') - 1
          /\ Len(history') = current_index + 2
          /\ LET cmd == history'[current_index' + 1]
             IN \A c \in Keys(cmd.pixels_changed) :
                    cmd.pixels_changed[c][2] = ActivePixels'[c]]_vars

\* C3: after any sequence of execute_command, add_command, undo, redo and
\* clear on a manager with max_history = M, -1 <= current_index <= len - 1
\* and len <= M; M or more pushes in a row leave exactly M entries with the
\* cursor on the last one, the next M undo calls succeed and the one after
\* them fails.
C3_HistoryBounded ==
    /\ -1 <= current_index
    /\ current_index <= Len(history) - 1
    /\ Len(history) <= max_history
    /\ (run.p >= max_history /\ run.u = 0 /\ run.r = 0
          => Len(history) = max_history /\ current_index = max_history - 1)
    /\ (run.p >= max_history /\ run.r = 0 /\ run.u \in 1 .. max_history
          => ret = RetBool(TRUE))
    /\ (run.p >= max_history /\ run.r = 0 /\ run.u = max_history + 1
          => ret = RetBool(FALSE))

\* more than M pushes in a row, then M successful undo calls and a failing one
C3_Witness ==
    /\ run.p > max_history
    /\ run.u = max_history + 1
    /\ run.r = 0
    /\ ret = RetBool(FALSE)
    /\ Len(history) = max_history

HistoryIds(h) == {h[j].id : j \in 1 .. Len(h)}

\* C4: execute_command(c) drops every command beyond the cursor (the undone
\* ones), leaves c as the last entry with current_index on it, and a redo()
\* right after it fails and changes no pixel; redo() succeeds exactly when
\* current_index < len(history) - 1.
C4_RedoAfterExecute ==
    [][/\ (lastOp'.name = "execute_command"
             => /\ history'[Len(history')].id = lastOp'.cmd
                /\ current_index' = Len(history') - 1
                /\ \A j \in current_index + 2 .. Len(history) :
                       history[j].id \notin HistoryIds(history'))
       /\ (lastOp'.name = "redo"
             => /\ (ret' = RetBool(TRUE)) <=> (current_index < Len(history) - 1)
                /\ (lastOp.name = "execute_command"
                      => ret' = RetBool(FALSE) /\ store' = store /\ pixels' = pixels))
      ]_vars

\* an execute_command that came right after one or more undo calls, followed
\* by a redo() that failed
C4_Witness ==
    /\ lastOp.name = "redo"
    /\ ret = RetBool(FALSE)
    /\ run.k >= 1 /\ run.p = 1 /\ run.u = 0 /\ run.r = 1
    /\ Len(history) >= 2
    /\ Len(history) < ncmds

\* C5: undo() with current_index < 0 and redo() with current_index at the
\* end return False and leave history (the commands' applied flags
\* included), current_index and every layer pixel unchanged.
C5_FailedUndoRedoNoOp ==
    [][/\ (lastOp'.name = "undo" /\ current_index < 0
             => /\ ret' = RetBool(FALSE)
                /\ UNCHANGED <<history, current_index, layers, store, pixels>>)
       /\ (lastOp'.name = "redo" /\ current_index = Len(history) - 1
             => /\ ret' = RetBool(FALSE)
                /\ UNCHANGED <<history, current_index, layers, store, pixels>>)
      ]_vars

\* a failed undo() on a history that holds commands and a painted layer
C5_Witness ==
    /\ lastOp.name = "undo"
    /\ ret = RetBool(FALSE)
    /\ current_index = -1
    /\ Len(history) >= 1

----------------------------------------------------------------------------
(* Properties of the LayerManager, under SpecLayers and SpecLayerEdits *)

CurrentId == layers[current_layer_index + 1].id
IsIndex(i) == 0 <= i /\ i < Len(layers)
PixelsAt(i) == store[layers[i + 1].pix]

\* C6: whatever integers the LayerManager methods are called with, there is
\* at least one layer and current_layer_index is a position of the list.
C6_CurrentLayerValid ==
    /\ Len(layers) >= 1
    /\ 0 <= current_layer_index
    /\ current_layer_index < Len(layers)

\* a call was refused on a full list whose last layer is current
C6_Witness ==
    /\ ret = RetBool(FALSE)
    /\ Len(layers) = MaxLayers
    /\ current_layer_index = Len(layers) - 1

\* C7: remove_layer on the only layer or with an index outside the list,
\* merge_down with index 0 or an index outside 1 .. len - 1 and
\* set_current_layer with an index outside the list return failure and leave
\* the layers, their pixels and current_layer_index as they were.
C7_RejectedCallsNoOp ==
    LET Rejected == [doc |-> Doc, ret |-> FALSE]
    IN \A i \in EditArgs :
           /\ (Len(layers) = 1 \/ ~IsIndex(i)) => remove_layer(Doc, i) = Rejected
           /\ (i = 0 \/ ~IsIndex(i)) => merge_down(Doc, <<i>>) = Rejected
           /\ ~IsIndex(i) => set_current_layer(Doc, i) = Rejected

\* a call was refused on a painted document whose second layer is current
C7_Witness ==
    /\ ret = RetBool(FALSE)
    /\ Len(layers) >= 2
    /\ current_layer_index >= 1
    /\ PixelsAt(1) # EmptyPixels

\* C8: a successful add_layer with 0 <= index <= len, remove_layer of a layer
\* other than the current one and move_layer leave current_layer_index on the
\* Layer that was current; removing the current layer leaves a valid index.
C8_CurrentLayerFollows ==
    [][/\ Len(layers') = Len(layers) + 1
          => \A i \in 0 .. Len(layers) : AddLayer(<<i>>) => CurrentId' = CurrentId
       /\ Len(layers') = Len(layers) - 1
          => \A i \in LayerIndices :
                 RemoveLayer(i)
                     => IF i # current_layer_index THEN CurrentId' = CurrentId
                        ELSE 0 <= current_layer_index'
                             /\ current_layer_index' < Len(layers')
       /\ Len(layers') = Len(layers) /\ ret' = RetBool(TRUE)
          => \A f \in LayerIndices, t \in LayerIndices :
                 MoveLayer(f, t) => CurrentId' = CurrentId]_vars

\* with the first of three layers current, another layer was moved to the top
C8_Witness ==
    /\ ret = RetBool(TRUE)
    /\ Len(layers) = 3
    /\ created = 3
    /\ edits = 0
    /\ current_layer_index = 0
    /\ CurrentId = 2
    /\ layers[2].id = 3
    /\ layers[3].id = 1

\* C9: duplicate_layer(i) inserts at i + 1 a layer with the visible flag, the
\* opacity and the pixels of layer i and makes it current; afterwards a
\* set_pixel or erase_pixel on one layer changes the pixels of no other.
C9_DuplicateIsIndependent ==
    [][/\ Len(layers') = Len(layers) + 1
          => \A i \in LayerIndices :
                 (DuplicateLayer(<<i>>) \/ (i = current_layer_index /\ DuplicateLayer(None)))
                     => /\ current_layer_index' = i + 1
                        /\ layers'[i + 2].id \notin {layers[k].id : k \in 1 .. Len(layers)}
                        /\ layers'[i + 2].visible = layers[i + 1].visible
                        /\ layers'[i + 2].opacity = layers[i + 1].opacity
                        /\ store'[layers'[i + 2].pix] = PixelsAt(i)
                        /\ layers'[i + 1] = layers[i + 1]
                        /\ store'[layers'[i + 1].pix] = PixelsAt(i)
       /\ edits' # edits /\ layers' = layers
          => \A i \in LayerIndices, c \in PaintCells :
                 (LayerErasePixel(i, c) \/ \E color \in PaletteColors : LayerSetPixel(i, c, color))
                     => \A k \in LayerIndices \ {i} :
                            store'[layers'[k + 1].pix] = PixelsAt(k)]_vars

\* a painted layer was duplicated and the copy was erased: the original keeps
\* its pixel
C9_Witness ==
    /\ Len(layers) = 2
    /\ layers[1].id = 1
    /\ layers[2].id = 2
    /\ created = 2
    /\ edits = 2
    /\ PixelsAt(0) # EmptyPixels
    /\ PixelsAt(1) = EmptyPixels

\* C10: merge_down(i) writes into layer i - 1, for every cell of layer i, what
\* flatten_layers computes for that cell: the colour when layer i is opaque,
\* otherwise the blend over the value of layer i - 1, opaque white standing in
\* where layer i - 1 has no entry.
C10_MergeBlendsLikeFlatten ==
    [][Len(layers') = Len(layers) - 1
          => \A i \in LayerIndices \ {0} :
                 (MergeDown(<<i>>) \/ (i = current_layer_index /\ MergeDown(None)))
                     => LET q == layers[i + 1].opacity
                        IN \A c \in Coords :
                               PixelsAt(i)[c] # None
                                   => store'[layers[i].pix][c] =
                                          IF q >= OPAQUE THEN PixelsAt(i)[c]
                                          ELSE Blend(IF PixelsAt(i - 1)[c] = None THEN WHITE
                                                     ELSE PixelsAt(i - 1)[c],
                                                     PixelsAt(i)[c], q)]_vars

----------------------------------------------------------------------------
(* Properties of merge_down and flatten_layers *)

\* C11: merge_down(i) of a fully opaque layer i > 0 removes exactly layer i;
\* the layer below survives with layer i's colour at every cell layer i had
\* and its own value at every other cell, and every other layer keeps its
\* place in the remaining order, its attributes and its pixels.
C11_MergeOpaqueComposes ==
    [][lastOp'.name = "merge_down"
          => \A i \in LayerIndices \ {0} :
                 /\ MergeDown(<<i>>) \/ (i = current_layer_index /\ MergeDown(None))
                 /\ layers[i + 1].opacity >= OPAQUE
                 => /\ Len(layers') = Len(layers) - 1
                    /\ layers'[i] = layers[i]
                    /\ \A c \in Coords :
                           store'[layers[i].pix][c] =
                               IF PixelsAt(i)[c] # None THEN PixelsAt(i)[c]
                               ELSE PixelsAt(i - 1)[c]
                    /\ \A k \in LayerIndices \ {i - 1, i} :
                           LET k2 == IF k < i THEN k ELSE k - 1
                           IN /\ layers'[k2 + 1] = layers[k + 1]
                              /\ store'[layers[k + 1].pix] = PixelsAt(k)]_vars

\* a merge of an opaque layer was the last call: the survivor holds a pixel,
\* a third layer is still there, and no opacity was ever changed
C11_Witness ==
    /\ lastOp.name = "merge_down"
    /\ Len(layers) = 2
    /\ created = 3
    /\ edits = 1
    /\ \E k \in LayerIndices : PixelsAt(k) # EmptyPixels
    /\ \A k \in LayerIndices : layers[k + 1].opacity = OPAQUE

\* the bottom n layers of the manager as a manager of their own
Prefix(n) == [Doc EXCEPT !.layers = SubSeq(layers, 1, n)]

\* the manager without its hidden layers
VisibleOnly ==
    LET IsVisible(layer) == layer.visible
    IN [Doc EXCEPT !.layers = SelectSeq(layers, IsVisible)]

\* C12: in flatten_layers a visible layer of opacity o < 1 puts at each of its
\* cells inside the bounds trunc(existing * (1 - o) + color * o) per channel,
\* existing being the value the layers below flatten to there, or white when
\* they have none; opacity 0.5 and black over no value give (127, 127, 127).
C12_FlattenBlend ==
    \A w \in FlatWidths, n \in 1 .. Len(layers), c \in Coords :
        LET layer == layers[n]
            color == store[layer.pix][c]
            below == flatten_layers(Prefix(n - 1), w, canvas_height)[c]
            existing == IF below = None THEN WHITE ELSE below
            o == layer.opacity
        IN layer.visible /\ o < OPAQUE /\ color # None /\ in_bounds(c, w, canvas_height)
           => flatten_layers(Prefix(n), w, canvas_height)[c] =
                  [k \in 1 .. 3 |-> (existing[k] * (OPAQUE - o) + color[k] * o) \div OPAQUE]

\* flatten_layers returned (127, 127, 127) for a black cell of a half-opaque
\* bottom layer
C12_Witness ==
    /\ lastOp.name = "flatten_layers"
    /\ layers[1].visible
    /\ layers[1].opacity = OPAQUE \div 2
    /\ PixelsAt(0)[<<0, 0>>] = BLACK
    /\ Len(layers) = 1
    /\ ret[1][<<0, 0>>] = <<127, 127, 127>>

\* the manager as the step leaves it
DocAfter == [layers |-> layers', current_layer_index |-> current_layer_index',
             store |-> store', created |-> created', pixels |-> pixels',
             current_color |-> current_color']

TopVisible(c) ==
    LET has == {n \in 1 .. Len(layers) : layers[n].visible /\ store[layers[n].pix][c] # None}
    IN IF has = {} THEN 0 ELSE CHOOSE n \in has : \A m \in has : m <= n

\* C14: the map flatten_layers(w, h) returns has entries only inside
\* [0, w) x [0, h), is the map the visible layers alone flatten to, and for
\* visible layers that are all fully opaque gives every cell inside the bounds
\* the colour of the topmost visible layer with an entry there (none if no
\* visible layer has one).
C14_FlattenVisibleInBounds ==
    \A w \in FlatWidths :
        LET flat == flatten_layers(Doc, w, canvas_height)
        IN /\ \A c \in Coords : ~(0 <= c[1] /\ c[1] < w /\ 0 <= c[2] /\ c[2] < canvas_height)
                                    => flat[c] = None
           /\ flat = flatten_layers(VisibleOnly, w, canvas_height)
           /\ (\A n \in 1 .. Len(layers) : layers[n].visible => layers[n].opacity >= OPAQUE)
                  => \A c \in Coords :
                         (0 <= c[1] /\ c[1] < w /\ 0 <= c[2] /\ c[2] < canvas_height)
                             => flat[c] = IF TopVisible(c) = 0 THEN None
                                          ELSE store[layers[TopVisible(c)].pix][c]

\* flatten_layers returned the bottom layer's colour under a hidden layer with
\* another colour, and dropped the bottom layer's cell right of the canvas
C14_Witness ==
    /\ lastOp.name = "flatten_layers"
    /\ Len(layers) = 2
    /\ layers[1].visible /\ layers[1].opacity = OPAQUE
    /\ ~layers[2].visible
    /\ PixelsAt(0)[<<0, 0>>] = BLACK
    /\ PixelsAt(0)[<<CanvasW, 0>>] = BLACK
    /\ PixelsAt(1)[<<0, 0>>] = RED
    /\ ret[1][<<0, 0>>] = BLACK
    /\ ret[1][<<CanvasW, 0>>] = None

----------------------------------------------------------------------------
(* Properties of the fill tool *)

Adjacent(a, b) == Abs(a[1] - b[1]) + Abs(a[2] - b[2]) = 1

\* the canvas cells joined to those of S by steps between side-by-side cells
\* of colour t in px
RECURSIVE Grow(_, _, _)
Grow(S, px, t) ==
    LET more == {c \in CanvasCells : px[c] = t /\ \E b \in S : Adjacent(b, c)}
    IN IF more \subseteq S THEN S ELSE Grow(S \cup more, px, t)

\* the 4-connected component of cell s among the canvas cells of s's colour
Component(px, s) == Grow({s}, px, px[s])

\* C15: on a single visible opaque layer, a fill that starts at canvas cell s
\* with a colour C other than the colour T of s sets to C exactly the cells of
\* the 4-connected component of s among the canvas cells of colour T, each
\* once, and leaves every other cell as it was.
C15_FillIsComponent ==
    (/\ flood.start # None
     /\ flood.stack = <<>>
     /\ Len(layers) = 1 /\ layers[1].visible /\ layers[1].opacity >= OPAQUE)
        => LET comp == Component(pre_gesture, flood.start)
           IN /\ current_color # pre_gesture[flood.start]
              /\ \A c \in Coords :
                     /\ ActivePixels[c] = IF c \in comp THEN current_color
                                          ELSE pre_gesture[c]
                     /\ flood.sets[c] = IF c \in comp THEN 1 ELSE 0

\* a fill from the top left cell has ended: it coloured that cell and the one
\* below it black, and not the empty cell on the diagonal behind a red one
C15_Witness ==
    /\ flood.start = <<0, 0>>
    /\ flood.stack = <<>>
    /\ Len(layers) = 1 /\ layers[1].visible
    /\ pre_gesture[<<0, 0>>] = None /\ pre_gesture[<<0, 1>>] = None
    /\ pre_gesture[<<1, 0>>] = RED /\ pre_gesture[<<1, 1>>] = None
    /\ ActivePixels[<<0, 0>>] = BLACK /\ ActivePixels[<<0, 1>>] = BLACK
    /\ ActivePixels[<<1, 0>>] = RED

\* C16: the loop of flood_fill ends on every canvas, start cell and layer
\* stack, also when the active layer is hidden or covered and a painted cell
\* reads back unchanged; while it runs the set filled only grows, and no cell
\* is set more than once.
C16_FloodFillTerminates ==
    /\ (flood.stack # <<>>) ~> (flood.stack = <<>>)
    /\ [][flood.stack # <<>> => flood.filled \subseteq flood'.filled]_vars
    /\ [](\A c \in Coords : flood.sets[c] <= 1)

\* a fill on a hidden layer has ended: every canvas cell was set, among them
\* a cell whose colour in the layer was not the target colour
C16_Witness ==
    /\ flood.start # None
    /\ flood.stack = <<>>
    /\ ~layers[1].visible
    /\ flood.filled = CanvasCells
    /\ flood.target_color = None
    /\ pre_gesture[<<1, 0>>] = RED
    /\ ActivePixels[<<1, 0>>] = BLACK

\* C17: a fill click on a cell whose colour is the current drawing colour
\* changes no pixel of any layer and adds no command: history and
\* current_index stay as they are.
C17_FillSameColorNoOp ==
    [][current_tool_name = "fill"
          => \A pos \in MousePoints :
                 /\ FillClick(pos)
                 /\ get_pixel_coords(pos) # None
                 /\ flatten_layers(Doc, canvas_width, canvas_height)[get_pixel_coords(pos)]
                        = current_color
                 => /\ layers' = layers
                    /\ store' = store
                    /\ pixels' = pixels
                    /\ history' = history
                    /\ current_index' = current_index]_vars

\* the fill click made last was on the first cell and recorded nothing; that
\* cell has the current colour, and the one command pushed before is still the
\* whole history
C17_Witness ==
    /\ lastOp = [name |-> "fill_click", coords |-> <<0, 0>>, recorded |-> {}]
    /\ current_tool_name = "fill"
    /\ pixels[<<0, 0>>] = current_color
    /\ Len(history) = 1
    /\ current_index = 0

----------------------------------------------------------------------------
(* Properties of the SymmetryManager, under SpecSymmetry *)

\* the set of the points of a list
Points(list) == {list[k] : k \in 1 .. Len(list)}

\* get_symmetry_points was the call made last, on a manager whose centre is
\* that of the canvas size passed
CentredCall ==
    /\ lastOp.name = "get_symmetry_points"
    /\ symmetry.center_x = lastOp.width \div 2
    /\ symmetry.center_y = lastOp.height \div 2

\* C18: for a point (x, y) on the canvas and the centre (w // 2, h // 2),
\* get_symmetry_points returns with horizontal symmetry alone exactly the
\* canvas points among (x, y), (2cx - x, y), and with horizontal and vertical
\* symmetry exactly the canvas points among those and (x, 2cy - y),
\* (2cx - x, 2cy - y); no point is returned twice and none lies off the
\* canvas.  On a 10 x 10 canvas (2, 3) gives (2, 3), (8, 3), and with both
\* symmetries also (2, 7), (8, 7).
C18_MirrorPoints ==
    /\ (/\ CentredCall
        /\ in_bounds(<<lastOp.x, lastOp.y>>, lastOp.width, lastOp.height)
        /\ symmetry.horizontal_symmetry /\ ~symmetry.diagonal_symmetry)
           => LET x == lastOp.x
                  y == lastOp.y
                  mx == 2 * (lastOp.width \div 2) - x
                  my == 2 * (lastOp.height \div 2) - y
                  all == IF symmetry.vertical_symmetry
                         THEN {<<x, y>>, <<mx, y>>, <<x, my>>, <<mx, my>>}
                         ELSE {<<x, y>>, <<mx, y>>}
              IN /\ Points(ret[1]) =
                        {pt \in all : /\ 0 <= pt[1] /\ pt[1] < lastOp.width
                                      /\ 0 <= pt[2] /\ pt[2] < lastOp.height}
                 /\ Cardinality(Points(ret[1])) = Len(ret[1])
    /\ LET h == toggle_horizontal_symmetry(set_canvas_center(SymmetryManager_init, 10, 10)).sym
           hv == toggle_vertical_symmetry(h).sym
       IN /\ get_symmetry_points(h, 2, 3, 10, 10) = << <<2, 3>>, <<8, 3>> >>
          /\ Points(get_symmetry_points(hv, 2, 3, 10, 10))
                 = {<<2, 3>>, <<8, 3>>, <<2, 7>>, <<8, 7>>}
          /\ Len(get_symmetry_points(hv, 2, 3, 10, 10)) = 4

\* get_symmetry_points returned two points for (0, 1) on a 3 x 2 canvas with
\* horizontal and vertical symmetry: row 1 mirrors to itself, so two of the
\* four candidates are duplicates
C18_Witness ==
    /\ CentredCall
    /\ lastOp.width = 3 /\ lastOp.height = 2
    /\ symmetry.horizontal_symmetry /\ symmetry.vertical_symmetry
    /\ ~symmetry.diagonal_symmetry
    /\ lastOp.x = 0 /\ lastOp.y = 1
    /\ Points(ret[1]) = {<<0, 1>>, <<2, 1>>}

\* C19: with diagonal symmetry active the list get_symmetry_points returns
\* contains (y, x) exactly when (y, x) lies on the canvas, and with horizontal,
\* vertical and diagonal symmetry all active it contains
\* (2 * center_x - y, 2 * center_y - x) whenever that point lies on the
\* canvas, whatever the canvas size.
C19_DiagonalPoints ==
    (lastOp.name = "get_symmetry_points" /\ symmetry.diagonal_symmetry)
        => LET x == lastOp.x
               y == lastOp.y
               anti == <<2 * symmetry.center_x - y, 2 * symmetry.center_y - x>>
           IN /\ <<y, x>> \in Points(ret[1])
                     <=> in_bounds(<<y, x>>, lastOp.width, lastOp.height)
              /\ (/\ symmetry.horizontal_symmetry /\ symmetry.vertical_symmetry
                  /\ in_bounds(anti, lastOp.width, lastOp.height))
                     => anti \in Points(ret[1])

\* two managers with the same toggles: this one, and one no set_canvas_center
\* call was made on
Uncentred ==
    [symmetry EXCEPT !.center_x = SymmetryManager_init.center_x,
                     !.center_y = SymmetryManager_init.center_y]

\* C20: get_symmetry_points depends on x, y, width, height and the three
\* toggles alone: a manager returns the list a manager with the same toggles
\* returns on which set_canvas_center was never called.
C20_SymmetryPointsPure ==
    lastOp.name = "get_symmetry_points"
        => ret[1] = get_symmetry_points(Uncentred, lastOp.x, lastOp.y,
                                        lastOp.width, lastOp.height)

----------------------------------------------------------------------------
(* The home and new-file scenes, up to the creation of the canvas *)

\* the size used when a size field does not parse
NF_DEFAULT_CELLS == 128
\* a size field takes a digit only while it is shorter than this
NF_MAX_DIGITS == 4
\* the digit keys pressed
DigitKeys == {0, 3}

\* int(text) of a non-empty string of digits
RECURSIVE int(_)
int(text) ==
    IF text = <<>> THEN 0
    ELSE 10 * int(SubSeq(text, 1, Len(text) - 1)) + text[Len(text)]

\* (w_cells, h_cells) of the try block: int('') raises ValueError
ParseCells(wt, ht) ==
    IF wt = <<>> \/ ht = <<>> THEN <<NF_DEFAULT_CELLS, NF_DEFAULT_CELLS>>
    ELSE <<Max(1, int(wt)), Max(1, int(ht))>>

NewCanvas(wt, ht) ==
    LET cells == ParseCells(wt, ht)
    IN PixelCanvas(cells[1] * PIXEL_SIZE, cells[2] * PIXEL_SIZE, PIXEL_SIZE, 0, 0)

\* the editor objects both creation paths construct anew
EnterEditor ==
    /\ history' = <<>>
    /\ current_index' = -1
    /\ max_history' = DEFAULT_MAX_HISTORY
    /\ current_tool_name' = "brush"
    /\ drawing' = FALSE
    /\ last_pos' = None
    /\ tools' = ToolManager_init
    /\ rect_tool' = RectangleTool_init
    /\ line_tool' = LineTool_init
    /\ scene' = "editor"
    /\ UNCHANGED <<docVars, ncmds, current_stroke_changes, ret, run, snaps,
                   pre_gesture, edits, midkeys, flood, nf_width_text, nf_height_text,
                   nf_active, preview_start_pos>>

HomeNewClick ==
    /\ scene = "home"
    /\ scene' = "new_file"
    /\ lastOp' = [name |-> "new"]
    /\ UNCHANGED <<docVars, undoVars, ncmds, editorVars, ret, run, snaps, pre_gesture,
                   edits, midkeys, flood, symmetry, nf_width_text, nf_height_text,
                   nf_active, canvas, toolVars>>

FieldClick(field) ==
    /\ scene = "new_file"
    /\ nf_active' = field
    /\ lastOp' = [name |-> "field"]
    /\ UNCHANGED <<docVars, undoVars, ncmds, editorVars, ret, run, snaps, pre_gesture,
                   edits, midkeys, flood, symmetry, scene, nf_width_text, nf_height_text,
                   canvas, toolVars>>

CreateClick ==
    /\ scene = "new_file"
    /\ canvas' = <<NewCanvas(nf_width_text, nf_height_text)>>
    /\ symmetry' = set_canvas_center(symmetry, canvas'[1].canvas_width,
                                  canvas'[1].canvas_height)
    /\ current_tool_mode' = "normal"
    /\ lastOp' = [name |-> "create"]
    /\ EnterEditor

BackClick ==
    /\ scene = "new_file"
    /\ scene' = "home"
    /\ nf_active' = "None"
    /\ lastOp' = [name |-> "back"]
    /\ UNCHANGED <<docVars, undoVars, ncmds, editorVars, ret, run, snaps, pre_gesture,
                   edits, midkeys, flood, symmetry, nf_width_text, nf_height_text, canvas,
                   toolVars>>

EnterKey ==
    /\ scene = "new_file"
    /\ nf_active # "None"
    /\ canvas' = <<NewCanvas(nf_width_text, nf_height_text)>>
    /\ lastOp' = [name |-> "enter"]
    /\ EnterEditor
    /\ UNCHANGED <<symmetry, current_tool_mode>>

\* a key that edits the active field, or Escape; the target is assigned back
\* to the width field if that is still the active one, else to the height field
FieldKey(key, digit) ==
    /\ scene = "new_file"
    /\ nf_active # "None"
    /\ LET target == IF nf_active = "width" THEN nf_width_text ELSE nf_height_text
           edited == IF key = "backspace" THEN SubSeq(target, 1, Len(target) - 1)
                     ELSE IF key = "digit" /\ Len(target) < NF_MAX_DIGITS
                          THEN Append(target, digit)
                     ELSE target
       IN /\ IF key = "escape"
             THEN scene' = "home" /\ nf_active' = "None"
             ELSE UNCHANGED <<scene, nf_active>>
          /\ IF nf_active' = "width"
             THEN nf_width_text' = edited /\ UNCHANGED nf_height_text
             ELSE nf_height_text' = edited /\ UNCHANGED nf_width_text
    /\ lastOp' = [name |-> "key"]
    /\ UNCHANGED <<docVars, undoVars, ncmds, editorVars, ret, run, snaps, pre_gesture,
                   edits, midkeys, flood, symmetry, canvas, toolVars>>

\* the program right after start-up
InitNewFile ==
    /\ InitDoc /\ InitRest /\ max_history = DEFAULT_MAX_HISTORY
    /\ scene = "home"
    /\ nf_width_text = <<1, 2, 8>>
    /\ nf_height_text = <<1, 2, 8>>
    /\ nf_active = "width"
    /\ canvas = None
    /\ current_tool_mode = "normal"
    /\ preview_start_pos = None
    /\ tools = ToolManager_init
    /\ rect_tool = RectangleTool_init
    /\ line_tool = LineTool_init

NextNewFile ==
    \/ HomeNewClick
    \/ \E field \in {"width", "height"} : FieldClick(field)
    \/ CreateClick
    \/ BackClick
    \/ EnterKey
    \/ \E key \in {"backspace", "escape"} : FieldKey(key, 0)
    \/ \E digit \in DigitKeys : FieldKey("digit", digit)

SpecNewFile == InitNewFile /\ [][NextNewFile]_vars

\* C21: whenever the editor scene holds a canvas, however it was created and
\* whatever width and height were entered, the centre of the symmetry manager
\* is (canvas_width // 2, canvas_height // 2).
C21_SymmetryCentred ==
    (scene = "editor" /\ canvas # None)
        => /\ symmetry.center_x = canvas[1].canvas_width \div 2
           /\ symmetry.center_y = canvas[1].canvas_height \div 2

----------------------------------------------------------------------------
(* Brush and eraser gestures with the symmetry keys *)

SymmetryKeys == {"h", "v", "d"}

\* KEYDOWN Shift+H / V / D (without Ctrl): the toggle of one axis
KeySymmetry(key) ==
    /\ KeyDown
    /\ symmetry' = CASE key = "h" -> toggle_horizontal_symmetry(symmetry).sym
                     [] key = "v" -> toggle_vertical_symmetry(symmetry).sym
                     [] key = "d" -> toggle_diagonal_symmetry(symmetry).sym
    /\ UNCHANGED <<docVars, undoVars, ncmds, editorVars, callVars, snaps, pre_gesture,
                   edits, flood, sceneVars>>

\* the editor scene entered through the Create button
InitMirror ==
    /\ InitDoc /\ InitEditor /\ InitScene /\ max_history = DEFAULT_MAX_HISTORY
    /\ symmetry = set_canvas_center(SymmetryManager_init, canvas_width, canvas_height)

\* gestures one after another, the keys pressed between two gestures
NextMirror ==
    \/ \E pos \in MousePoints : MouseDown(pos)
    \/ \E pos \in MousePoints : MouseMove(pos)
    \/ MouseUp
    \/ ~drawing /\ \E key \in SymmetryKeys : KeySymmetry(key)
    \/ ~drawing /\ \E key \in ToolKeys : KeyTool(key)

SpecMirror == InitMirror /\ [][NextMirror]_vars

\* C22: while a symmetry axis is on, the brush applied at the cell under the
\* mouse has also painted every mirror cell get_symmetry_points returns for
\* it, and a mirror cell is among the gesture's recorded changes whenever the
\* cell itself is.
C22_MirroredStroke ==
    (/\ drawing /\ last_pos # None /\ current_tool_name = "brush"
     /\ get_pixel_coords(last_pos) # None)
        => LET c == get_pixel_coords(last_pos)
           IN \A p \in Points(get_symmetry_points(symmetry, c[1], c[2],
                                                  canvas_width, canvas_height)) :
                 /\ ActivePixels[p] = current_color
                 /\ c \in Keys(current_stroke_changes)
                        => p \in Keys(current_stroke_changes)

----------------------------------------------------------------------------
(* Layer operations issued from the layers panel and the keyboard *)

PanelActions == {"new_layer", "duplicate_layer", "delete_layer", "merge_down"}
LayerKeys == {"ctrl_d", "ctrl_n", "delete"}

\* the LayerManager call the editor makes for a panel action or a layer key;
\* nothing else is done: no command is built and canvas.pixels is not refreshed
layer_action(d, action) ==
    CASE action \in {"new_layer", "ctrl_n"} -> add_layer(d, None)
      [] action \in {"duplicate_layer", "ctrl_d"} -> duplicate_layer(d, None).doc
      [] action \in {"delete_layer", "delete"} ->
            IF Len(d.layers) > 1 THEN remove_layer(d, d.current_layer_index).doc ELSE d
      [] action = "merge_down" -> merge_down(d, <<d.current_layer_index>>).doc

\* MOUSEBUTTONDOWN on a button of the layers panel
PanelClick(action) ==
    /\ ~drawing
    /\ action \in {"new_layer", "duplicate_layer"} => created < MaxCreated
    /\ SetDoc(layer_action(Doc, action))
    /\ lastOp' = [name |-> action]
    /\ UNCHANGED <<undoVars, ncmds, editorVars, ret, run, snaps, pre_gesture, edits,
                   midkeys, flood, symmetry, sceneVars>>

\* KEYDOWN Ctrl+D / Ctrl+N / Delete
KeyLayer(key) ==
    /\ KeyDown
    /\ key \in {"ctrl_n", "ctrl_d"} => created < MaxCreated
    /\ SetDoc(layer_action(Doc, key))
    /\ lastOp' = [name |-> key]
    /\ UNCHANGED <<undoVars, ncmds, editorVars, ret, run, snaps, pre_gesture, edits,
                   flood, symmetry, sceneVars>>

NextLayerPanel ==
    \/ \E pos \in MousePoints : MouseDown(pos)
    \/ \E pos \in MousePoints : MouseMove(pos)
    \/ MouseUp
    \/ ~drawing /\ KeyUndo
    \/ \E action \in PanelActions : PanelClick(action)
    \/ ~drawing /\ \E key \in LayerKeys : KeyLayer(key)

SpecLayerPanel == Init /\ [][NextLayerPanel]_vars

\* C23: every step that changes the layer stack (add, remove, duplicate or
\* merge down, from the panel or the keyboard) puts a command into the undo
\* history, and undo() right after it gives back the previous layer stack
\* and the previous pixels of every layer.
C23_LayerOpsUndoable ==
    [][layers' # layers
         => /\ history' # history
            /\ LET r == undo(Undo', Doc')
               IN /\ r.doc.layers = layers
                  /\ \A i \in 1 .. Len(layers) :
                        r.doc.store[r.doc.layers[i].pix] = store[layers[i].pix]]_vars

----------------------------------------------------------------------------
(* The line and rectangle gestures *)

\* the cells the while loop of draw_pixel_perfect_line visits from (x, y) on
\* the way from a to b; err2 is twice the error term of the source
RECURSIVE LineWalk(_, _, _, _, _)
LineWalk(x, y, err2, a, b) ==
    LET dx == Abs(b[1] - a[1])
        dy == Abs(b[2] - a[2])
        x_step == IF a[1] < b[1] THEN 1 ELSE -1
        y_step == IF a[2] < b[2] THEN 1 ELSE -1
    IN IF dx > dy
       THEN IF x = b[1] THEN <<>>
            ELSE LET e == err2 - 2 * dy
                 IN << <<x, y>> >> \o
                    (IF e < 0 THEN LineWalk(x + x_step, y + y_step, e + 2 * dx, a, b)
                     ELSE LineWalk(x + x_step, y, e, a, b))
       ELSE IF y = b[2] THEN <<>>
            ELSE LET e == err2 - 2 * dx
                 IN << <<x, y>> >> \o
                    (IF e < 0 THEN LineWalk(x + x_step, y + y_step, e + 2 * dy, a, b)
                     ELSE LineWalk(x, y + y_step, e, a, b))

\* the cells of the line from a to b, the final cell last
LineCells(a, b) ==
    LineWalk(a[1], a[2], Max(Abs(b[1] - a[1]), Abs(b[2] - a[2])), a, b) \o <<b>>

\* the cells the rectangle branch of MOUSEBUTTONUP visits, in its order
RectangleCells(a, b, fill_mode) ==
    LET left == Min(a[1], b[1])
        right == Max(a[1], b[1])
        top == Min(a[2], b[2])
        bottom == Max(a[2], b[2])
        w == right - left + 1
    IN IF fill_mode = "fill"
       THEN [k \in 1 .. w * (bottom - top + 1) |->
                <<left + ((k - 1) % w), top + ((k - 1) \div w)>>]
       ELSE [k \in 1 .. 2 * w |->
                <<left + ((k - 1) \div 2), IF k % 2 = 1 THEN top ELSE bottom>>]
            \o [k \in 1 .. 2 * Max(0, bottom - top - 1) |->
                <<IF k % 2 = 1 THEN left ELSE right, top + 1 + ((k - 1) \div 2)>>]

\* tool.get_affected_pixels of every cell of a list, one after another
RECURSIVE AffectedBy(_, _)
AffectedBy(tool, cells) ==
    IF cells = <<>> THEN <<>>
    ELSE get_affected_pixels(tool.size, tool.shape, cells[1][1], cells[1][2])
         \o AffectedBy(tool, Tail(cells))

draw_pixel_perfect_line(d, changes, tool, p1, p2) ==
    LET coords1 == get_pixel_coords(p1)
        coords2 == get_pixel_coords(p2)
    IN IF coords1 = None \/ coords2 = None THEN [doc |-> d, changes |-> changes]
       ELSE TrackCells(d, changes, tool, AffectedBy(tool, LineCells(coords1, coords2)))

draw_rectangle(d, changes, tool, fill_mode, p1, p2) ==
    LET coords1 == get_pixel_coords(p1)
        coords2 == get_pixel_coords(p2)
    IN IF coords1 = None \/ coords2 = None THEN [doc |-> d, changes |-> changes]
       ELSE TrackCells(d, changes, tool,
                       AffectedBy(tool, RectangleCells(coords1, coords2, fill_mode)))

ShapeKeys == {"line", "rectangle"}
\* the mouse positions of the shape gestures: the four cells of the canvas
ShapePoints == {CellCentre(c) : c \in (0 .. CanvasW - 1) \X (0 .. CanvasH - 1)}

\* MOUSEBUTTONDOWN, button 1, inside the holder, line or rectangle selected
MouseDownShape(pos) ==
    /\ ~drawing
    /\ ncmds < MaxStrokes
    /\ current_tool_name \in {"line", "rectangle"}
    /\ current_tool_mode' = IF current_tool_name = "line" THEN "line_preview"
                            ELSE "rectangle_preview"
    /\ preview_start_pos' = pos
    /\ drawing' = TRUE
    /\ UNCHANGED <<docVars, undoVars, ncmds, current_tool_name, last_pos,
                   current_stroke_changes, callVars, snaps, pre_gesture, edits, midkeys,
                   flood, symmetry, scene, nf_width_text, nf_height_text, nf_active,
                   canvas, tools, rect_tool, line_tool>>

\* MOUSEBUTTONUP, button 1, at pos in the line / rectangle preview mode
MouseUpShape(pos) ==
    /\ drawing
    /\ current_tool_mode \in {"line_preview", "rectangle_preview"}
    /\ IF preview_start_pos # None
       THEN LET r == IF current_tool_mode = "line_preview"
                     THEN draw_pixel_perfect_line(Doc, NoChanges, CurrentTool,
                                                  preview_start_pos, pos)
                     ELSE draw_rectangle(Doc, NoChanges, CurrentTool,
                                         IF current_tool_name = "rectangle"
                                         THEN rect_tool.fill_mode ELSE "hollow",
                                         preview_start_pos, pos)
            IN /\ current_stroke_changes' = r.changes
               /\ IF Keys(r.changes) # {}
                  THEN LET e == execute_command(Undo, r.doc,
                                                DrawCommand(ncmds + 1, r.changes, TRUE))
                       IN /\ SetUndo(e.undo)
                          /\ SetDoc(e.doc)
                          /\ ncmds' = ncmds + 1
                          /\ snaps' = PushSnap(e.undo,
                                               LayerPixels(e.doc, e.doc.current_layer_index))
                  ELSE SetDoc(r.doc) /\ UNCHANGED <<undoVars, ncmds, snaps>>
               /\ current_tool_mode' = "normal"
               /\ preview_start_pos' = None
       ELSE UNCHANGED <<docVars, undoVars, ncmds, snaps, current_stroke_changes,
                        current_tool_mode, preview_start_pos>>
    /\ drawing' = FALSE
    /\ last_pos' = None
    /\ lastOp' = [name |-> "release", pos |-> pos]
    /\ UNCHANGED <<current_tool_name, ret, run, pre_gesture, edits, midkeys, flood,
                   symmetry, scene, nf_width_text, nf_height_text, nf_active, canvas,
                   tools, rect_tool, line_tool>>

\* the mouse button held on the "Mode:" button of the tools panel for a frame
FillModeClick ==
    /\ current_tool_name = "rectangle"
    /\ rect_tool' = [rect_tool EXCEPT !.fill_mode = IF @ = "hollow" THEN "fill" ELSE "hollow"]
    /\ UNCHANGED <<docVars, undoVars, ncmds, editorVars, callVars, snaps, pre_gesture,
                   edits, midkeys, flood, symmetry, scene, nf_width_text, nf_height_text,
                   nf_active, canvas, current_tool_mode, preview_start_pos, tools,
                   line_tool>>

NextShapes ==
    \/ \E pos \in ShapePoints : MouseDownShape(pos)
    \/ \E pos \in ShapePoints : MouseMove(pos)
    \/ \E pos \in ShapePoints : MouseUpShape(pos)
    \/ ~drawing /\ \E key \in ShapeKeys : KeyTool(key)
    \/ ~drawing /\ FillModeClick

SpecShapes == Init /\ [][NextShapes]_vars

\* the cells a release at b after a press at a has to paint: the line or the
\* rectangle, expanded through get_affected_pixels and clipped to the canvas
ShapeTargets(a, b) ==
    {c \in Points(AffectedBy(CurrentTool,
                             IF current_tool_name = "line" THEN LineCells(a, b)
                             ELSE RectangleCells(a, b, rect_tool.fill_mode))) :
        canvas_in_bounds(c)}

\* C24: with the Line or Rectangle tool selected, a release at in-canvas cell
\* B after a press at in-canvas cell A sets every cell of the line (or of the
\* rectangle outline / block), expanded and clipped, to the current colour on
\* the active layer and pushes one DrawCommand holding those cells.
C24_ShapeGesture ==
    [][(/\ drawing /\ ~drawing'
        /\ current_tool_mode # "normal" /\ current_tool_mode' = "normal"
        /\ current_tool_name \in {"line", "rectangle"}
        /\ get_pixel_coords(preview_start_pos) # None
        /\ get_pixel_coords(lastOp'.pos) # None)
           => LET cells == ShapeTargets(get_pixel_coords(preview_start_pos),
                                        get_pixel_coords(lastOp'.pos))
              IN /\ \A c \in cells : ActivePixels'[c] = current_color
                 /\ ncmds' = ncmds + 1
                 /\ current_index' >= 0
                 /\ history'[current_index' + 1].kind = "Draw"
                 /\ cells \subseteq Keys(history'[current_index' + 1].pixels_changed)]_vars

----------------------------------------------------------------------------
(* The RectangleTool driven through its methods *)

\* a method that returns normally / that raises
Returned(t) == [tool |-> t, raised |-> "None"]
Raised(t, exception) == [tool |-> t, raised |-> exception]

toggle_fill_mode(t) ==
    Returned([t EXCEPT !.fill_mode = IF @ = "hollow" THEN "fill" ELSE "hollow"])

set_fill_mode(t, mode) ==
    Returned(IF mode \in {"hollow", "fill"} THEN [t EXCEPT !.fill_mode = mode] ELSE t)

start_rectangle(t, pos) ==
    LET coords == get_pixel_coords(pos)
    IN Returned(IF coords # None
                THEN [t EXCEPT !.start_pos = coords, !.preview_pixels = <<>>]
                ELSE t)

\* _get_rectangle_pixels reads self.filled, an attribute the object has only
\* if something assigned it
get_rectangle_pixels(t, x0, y0, x1, y1) ==
    IF "filled" \notin DOMAIN t THEN [raised |-> "AttributeError", pixels |-> <<>>]
    ELSE [raised |-> "None",
          pixels |-> RectangleCells(<<x0, y0>>, <<x1, y1>>,
                                    IF t.filled THEN "fill" ELSE "hollow")]

update_preview(t, pos) ==
    IF t.start_pos = None THEN Returned(t)
    ELSE LET coords == get_pixel_coords(pos)
         IN IF coords = None THEN Returned(t)
            ELSE LET r == get_rectangle_pixels(t, t.start_pos[1], t.start_pos[2],
                                               coords[1], coords[2])
                 IN IF r.raised # "None" THEN Raised(t, r.raised)
                    ELSE Returned([t EXCEPT !.preview_pixels = r.pixels])

toggle_filled(t) ==
    IF "filled" \notin DOMAIN t THEN Raised(t, "AttributeError")
    ELSE Returned([t EXCEPT !.filled = ~@])

\* RectangleTool.apply: the preview cells on the canvas are painted and the
\* gesture state is cleared
RectangleTool_apply(t, d) ==
    IF t.start_pos = None THEN [tool |-> t, doc |-> d]
    ELSE LET cells == t.preview_pixels
             acc[n \in 0 .. Len(cells)] ==
                 IF n = 0 THEN d
                 ELSE LET prev == acc[n - 1]
                      IN IF canvas_in_bounds(cells[n])
                         THEN Canvas_set_pixel(prev, cells[n], prev.current_color)
                         ELSE prev
         IN [tool |-> [t EXCEPT !.start_pos = None, !.preview_pixels = <<>>],
             doc |-> acc[Len(cells)]]

RectModes == {"hollow", "fill", "outline"}
\* the cells of the canvas and a point right of it
RectPoints == ShapePoints \cup {CellCentre(<<CanvasW, 0>>)}

\* a method of the RectangleTool is called
RectCall(r, op) ==
    /\ rect_tool' = r.tool
    /\ ret' = <<r.raised>>
    /\ lastOp' = op
    /\ UNCHANGED <<docVars, undoVars, ncmds, editorVars, run, snaps, pre_gesture, edits,
                   midkeys, flood, symmetry, scene, nf_width_text, nf_height_text,
                   nf_active, canvas, current_tool_mode, preview_start_pos, tools,
                   line_tool>>

ToggleFillMode == RectCall(toggle_fill_mode(rect_tool), [name |-> "toggle_fill_mode"])

SetFillMode(mode) ==
    RectCall(set_fill_mode(rect_tool, mode), [name |-> "set_fill_mode", mode |-> mode])

StartRectangle(pos) ==
    RectCall(start_rectangle(rect_tool, pos), [name |-> "start_rectangle", pos |-> pos])

UpdatePreview(pos) ==
    RectCall(update_preview(rect_tool, pos),
             [name |-> "update_preview", pos |-> pos, start |-> rect_tool.start_pos])

ToggleFilled == RectCall(toggle_filled(rect_tool), [name |-> "toggle_filled"])

RectApply ==
    /\ LET r == RectangleTool_apply(rect_tool, Doc)
       IN rect_tool' = r.tool /\ SetDoc(r.doc)
    /\ ret' = <<"None">>
    /\ lastOp' = [name |-> "apply"]
    /\ UNCHANGED <<undoVars, ncmds, editorVars, run, snaps, pre_gesture, edits,
                   midkeys, flood, symmetry, scene, nf_width_text, nf_height_text,
                   nf_active, canvas, current_tool_mode, preview_start_pos, tools,
                   line_tool>>

NextRectTool ==
    \/ ToggleFillMode
    \/ ToggleFilled
    \/ RectApply
    \/ \E mode \in RectModes : SetFillMode(mode)
    \/ \E pos \in RectPoints : StartRectangle(pos)
    \/ \E pos \in RectPoints : UpdatePreview(pos)

SpecRectTool == Init /\ [][NextRectTool]_vars

\* C25: after start_rectangle at an in-canvas cell, update_preview at an
\* in-canvas cell returns without raising and leaves in preview_pixels the
\* outline of the rectangle spanned by the anchor and the cursor cell when
\* fill_mode is 'hollow' and every cell of the rectangle when it is 'fill'.
C25_RectanglePreview ==
    (/\ lastOp.name = "update_preview"
     /\ lastOp.start # None
     /\ get_pixel_coords(lastOp.pos) # None)
        => /\ ret = <<"None">>
           /\ LET a == lastOp.start
                  b == get_pixel_coords(lastOp.pos)
                  box == (Min(a[1], b[1]) .. Max(a[1], b[1]))
                             \X (Min(a[2], b[2]) .. Max(a[2], b[2]))
              IN Points(rect_tool.preview_pixels) =
                     IF rect_tool.fill_mode = "fill" THEN box
                     ELSE {c \in box : \/ c[1] \in {a[1], b[1]}
                                       \/ c[2] \in {a[2], b[2]}}

----------------------------------------------------------------------------
(* The size and shape controls and Tool.get_affected_pixels *)

Tool_set_size(t, size) == [t EXCEPT !.size = Max(1, Min(MAX_TOOL_SIZE, size))]

Tool_increase(t, delta) == [t EXCEPT !.size = Min(MAX_TOOL_SIZE, Max(1, @ + delta))]

Tool_toggle_shape(t) == [t EXCEPT !.shape = IF @ = "square" THEN "circle" ELSE "square"]

\* only the size is copied to the other tools
sync_tool_properties_SizeOnly(ts, size, shape) ==
    [k \in DOMAIN ts |-> Tool_set_size(ts[k], size)]

sync_tool_properties(ts, size, shape) ==
    [k \in DOMAIN ts |-> [Tool_set_size(ts[k], size) EXCEPT !.shape = shape]]

\* a control changes the current tool, then the change is synced
control_event(ts, name, changed) ==
    LET ts1 == [ts EXCEPT ![name] = changed]
    IN sync_tool_properties(ts1, ts1[name].size, ts1[name].shape)

\* a control event leaves the rest of the editor alone
ControlEvent(ts, op) ==
    /\ ~drawing
    /\ tools' = ts
    /\ lastOp' = op
    /\ ret' = RetNone
    /\ UNCHANGED <<docVars, undoVars, ncmds, editorVars, run, snaps, pre_gesture,
                   edits, midkeys, flood, symmetry, scene, nf_width_text, nf_height_text,
                   nf_active, canvas, current_tool_mode, preview_start_pos, rect_tool,
                   line_tool>>

\* the '-' / '+' buttons and the '[' / ']' keys
SizeStep(delta) ==
    ControlEvent(control_event(tools, current_tool_name,
                               Tool_increase(tools[current_tool_name], delta)),
                 [name |-> "step"])

\* the shape button and the 'T' key
ShapeToggle ==
    ControlEvent(control_event(tools, current_tool_name,
                               Tool_toggle_shape(tools[current_tool_name])),
                 [name |-> "shape"])

\* a click on the slider or a drag of it: raw is int(relative_x / slider_w * 255) + 1
SliderSet(raw) ==
    ControlEvent(control_event(tools, current_tool_name,
                               Tool_set_size(tools[current_tool_name],
                                             Max(1, Min(MAX_TOOL_SIZE, raw)))),
                 [name |-> "slider"])

\* Enter in the size field holding the digits of new_size
SizeEntry(new_size) ==
    ControlEvent(IF 1 <= new_size /\ new_size <= MAX_TOOL_SIZE
                 THEN control_event(tools, current_tool_name,
                                    Tool_set_size(tools[current_tool_name], new_size))
                 ELSE tools,
                 [name |-> "entry"])

\* the largest brush whose cells are listed
MaxBrush == 4
BrushCentres == {<<0, 0>>, <<1, 2>>}
SliderRaws == {0 - 3, 2, MAX_TOOL_SIZE, MAX_TOOL_SIZE + 44}
SizeEntries == {0, 3, MAX_TOOL_SIZE, 999}

\* current_tool.get_affected_pixels(cx, cy)
GetAffectedPixels(cx, cy) ==
    /\ CurrentTool.size <= MaxBrush
    /\ ret' = <<get_affected_pixels(CurrentTool.size, CurrentTool.shape, cx, cy)>>
    /\ lastOp' = [name |-> "get_affected_pixels", cx |-> cx, cy |-> cy,
                  size |-> CurrentTool.size, shape |-> CurrentTool.shape]
    /\ UNCHANGED <<docVars, undoVars, ncmds, editorVars, run, snaps, pre_gesture,
                   edits, midkeys, flood, symmetry, sceneVars>>

NextTools ==
    \/ \E delta \in {0 - 1, 1} : SizeStep(delta)
    \/ ShapeToggle
    \/ \E raw \in SliderRaws : SliderSet(raw)
    \/ \E new_size \in SizeEntries : SizeEntry(new_size)
    \/ \E key \in ToolNames : KeyTool(key)
    \/ \E c \in BrushCentres : GetAffectedPixels(c[1], c[2])

SpecTools == Init /\ [][NextTools]_vars

\* C26: get_affected_pixels(cx, cy) lists, for a square of size S, exactly the
\* S * S cells with cx - S//2 <= px < cx - S//2 + S and the same for py; for a
\* circle of size 1 exactly (cx, cy); for a circle of size S > 1 exactly the
\* cells with 4 * ((px - cx)^2 + (py - cy)^2) <= S^2; no cell is listed twice.
C26_AffectedPixels ==
    lastOp.name = "get_affected_pixels"
        => LET S == lastOp.size
               cx == lastOp.cx
               cy == lastOp.cy
               list == ret[1]
               around == (cx - S - 1 .. cx + S + 1) \X (cy - S - 1 .. cy + S + 1)
           IN /\ Cardinality(Points(list)) = Len(list)
              /\ Points(list) =
                    IF lastOp.shape = "square"
                    THEN {p \in around : /\ cx - S \div 2 <= p[1]
                                         /\ p[1] < cx - S \div 2 + S
                                         /\ cy - S \div 2 <= p[2]
                                         /\ p[2] < cy - S \div 2 + S}
                    ELSE IF S = 1 THEN {<<cx, cy>>}
                    ELSE {p \in around :
                            4 * ((p[1] - cx) * (p[1] - cx) + (p[2] - cy) * (p[2] - cy))
                                <= S * S}
              /\ lastOp.shape = "square" => Len(list) = S * S

C26_Witness ==
    /\ lastOp.name = "get_affected_pixels"
    /\ lastOp.shape = "circle"
    /\ lastOp.size = MaxBrush
    /\ Len(ret[1]) > 1

\* C27: all six tools of the ToolManager have the same size and the same
\* shape, and that size is an integer from 1 to 256.
C27_ToolsInSync ==
    \A k \in ToolNames :
        /\ tools[k] = tools["brush"]
        /\ tools[k].size \in 1 .. MAX_TOOL_SIZE

C27_Witness ==
    /\ lastOp.name = "shape"
    /\ current_tool_name = "eraser"
    /\ tools["line"].shape = "circle"
    /\ tools["line"].size = MAX_TOOL_SIZE

----------------------------------------------------------------------------
(* The eyedropper *)

\* the colour picked is assigned even when the cell is empty
eyedropper_pick_Always(d, pos) ==
    LET coords == get_pixel_coords(pos)
    IN IF coords = None THEN d
       ELSE [d EXCEPT !.current_color = flatten_layers(d, canvas_width, canvas_height)[coords]]

\* the eyedropper branch of MOUSEBUTTONDOWN: canvas.get_pixel_color flattens
\* the layers anew
eyedropper_pick(d, pos) ==
    LET coords == get_pixel_coords(pos)
    IN IF coords = None THEN d
       ELSE LET picked_color == flatten_layers(d, canvas_width, canvas_height)[coords]
            IN IF picked_color # None THEN [d EXCEPT !.current_color = picked_color]
               ELSE d

EyedropperKeys == {"brush", "eyedropper"}

\* MOUSEBUTTONDOWN, button 1, inside the holder, eyedropper selected; the
\* clicks are told apart by an alternating mark
EyedropperClick(pos) ==
    /\ ~drawing
    /\ current_tool_name = "eyedropper"
    /\ SetDoc(eyedropper_pick(Doc, pos))
    /\ lastOp' = [name |-> "pick", pos |-> pos, before |-> current_color,
                  mark |-> IF lastOp.name = "pick" THEN 1 - lastOp.mark ELSE 0]
    /\ UNCHANGED <<undoVars, ncmds, editorVars, ret, run, snaps, pre_gesture, edits,
                   midkeys, flood, symmetry, sceneVars>>

NextEyedropper ==
    \/ \E pos \in MousePoints : MouseDown(pos)
    \/ MouseUp
    \/ \E pos \in MousePoints : EyedropperClick(pos)
    \/ ~drawing /\ KeyUndo
    \/ ~drawing /\ \E key \in EyedropperKeys : KeyTool(key)
    \/ \E color \in PaletteColors : PaletteClick(color)

SpecEyedropper == Init /\ [][NextEyedropper]_vars

\* C28: an eyedropper click on an in-canvas cell that shows a colour makes
\* that colour the current drawing colour; a click on an empty cell or
\* outside the canvas leaves the current colour as it is; in every case no
\* layer pixel, and neither the undo history nor current_index, changes.
C28_EyedropperFrame ==
    [][lastOp' # lastOp
         => LET coords == get_pixel_coords(lastOp'.pos)
                shown == IF coords = None THEN None
                         ELSE flatten_layers(Doc, canvas_width, canvas_height)[coords]
            IN /\ current_color' = IF shown # None THEN shown ELSE current_color
               /\ UNCHANGED <<layers, current_layer_index, store, history,
                              current_index>>]_vars

C28_Witness ==
    /\ lastOp.name = "pick"
    /\ get_pixel_coords(lastOp.pos) # None
    /\ lastOp.before = RED
    /\ current_color = BLACK

----------------------------------------------------------------------------
(* Every drawing operation, with brushes wider than one cell *)

BoundsKeys == {"brush", "eraser", "fill", "line", "rectangle"}

\* gestures one after another; between two gestures the tool is chosen, the
\* brush is made larger or smaller, and Ctrl+Z / Ctrl+Y are pressed
NextBounds ==
    \/ \E pos \in MousePoints : MouseDown(pos)
    \/ \E pos \in MousePoints : MouseMove(pos)
    \/ MouseUp
    \/ \E pos \in MousePoints : FillClick(pos)
    \/ \E pos \in MousePoints : MouseDownShape(pos)
    \/ \E pos \in MousePoints : MouseUpShape(pos)
    \/ ~drawing /\ KeyUndo
    \/ ~drawing /\ KeyRedo
    \/ ~drawing /\ \E key \in BoundsKeys : KeyTool(key)
    \/ CurrentTool.size < MaxBrush /\ SizeStep(1)
    \/ SizeStep(0 - 1)

SpecBounds == Init /\ [][NextBounds]_vars

\* C29: every key stored in a layer is a cell of the canvas, and the changes a
\* gesture has recorded are cells of the canvas, also when the footprint of
\* the brush or eraser reaches beyond the canvas edge.
C29_KeysInCanvas ==
    LET OnCanvas(c) == /\ 0 <= c[1] /\ c[1] < canvas_width
                       /\ 0 <= c[2] /\ c[2] < canvas_height
    IN /\ \A i \in 1 .. Len(layers) : \A c \in Keys(store[layers[i].pix]) : OnCanvas(c)
       /\ \A c \in Keys(current_stroke_changes) : OnCanvas(c)
       /\ \A c \in Keys(pixels) : OnCanvas(c)

C29_Witness ==
    /\ drawing /\ last_pos # None /\ get_pixel_coords(last_pos) # None
    /\ current_tool_name \in {"brush", "eraser"}
    /\ Keys(current_stroke_changes) # {}
    /\ LET c == get_pixel_coords(last_pos)
       IN \E p \in Points(get_affected_pixels(CurrentTool.size, CurrentTool.shape,
                                              c[1], c[2])) : ~canvas_in_bounds(p)

----------------------------------------------------------------------------
(* The PixelCanvas geometry driven through its methods *)

\* screen widths and heights of the canvases constructed, and their zoom
MaxScreen == 5
MaxZoom == 3
ScreenSizes == 3 .. MaxScreen
PixelSizes == 1 .. MaxZoom
Origins == {0, 1}
\* the sizes passed to set_pixel_size
ZoomArgs == (0 - 1) .. MaxZoom
\* the screen points asked for
ScreenPoints == (0 .. MaxScreen + 1) \X (0 .. MaxScreen + 1)

PixelCanvas_set_pixel_size(c, new_size) ==
    LET ps == Max(1, new_size)
    IN [c EXCEPT !.pixel_size = ps,
                 !.width = c.canvas_width * ps,
                 !.height = c.canvas_height * ps]

PixelCanvas_get_pixel_coords(c, mouse_x, mouse_y) ==
    IF /\ c.x <= mouse_x /\ mouse_x < c.x + c.width
       /\ c.y <= mouse_y /\ mouse_y < c.y + c.height
    THEN <<(mouse_x - c.x) \div c.pixel_size, (mouse_y - c.y) \div c.pixel_size>>
    ELSE None

\* a canvas constructed with any of the sizes
InitCanvas ==
    /\ InitDoc /\ InitRest /\ max_history = DEFAULT_MAX_HISTORY
    /\ scene = "editor"
    /\ nf_width_text = <<CanvasW>>
    /\ nf_height_text = <<CanvasH>>
    /\ nf_active = "width"
    /\ \E width \in ScreenSizes, height \in ScreenSizes, pixel_size \in PixelSizes,
          origin \in Origins :
            canvas = <<PixelCanvas(width, height, pixel_size, origin, origin)>>
    /\ current_tool_mode = "normal"
    /\ preview_start_pos = None
    /\ tools = ToolManager_init
    /\ rect_tool = RectangleTool_init
    /\ line_tool = LineTool_init

CanvasCall(c, r, op) ==
    /\ canvas' = <<c>>
    /\ ret' = r
    /\ lastOp' = op
    /\ UNCHANGED <<docVars, undoVars, ncmds, editorVars, run, snaps, pre_gesture, edits,
                   midkeys, flood, symmetry, scene, nf_width_text, nf_height_text,
                   nf_active, toolVars>>

SetPixelSize(new_size) ==
    CanvasCall(PixelCanvas_set_pixel_size(canvas[1], new_size), RetNone,
               [name |-> "set_pixel_size"])

GetPixelCoords(mouse_x, mouse_y) ==
    CanvasCall(canvas[1], <<PixelCanvas_get_pixel_coords(canvas[1], mouse_x, mouse_y)>>,
               [name |-> "get_pixel_coords"])

NextCanvas ==
    \/ \E new_size \in ZoomArgs : SetPixelSize(new_size)
    \/ \E p \in ScreenPoints : GetPixelCoords(p[1], p[2])

SpecCanvas == InitCanvas /\ [][NextCanvas]_vars

\* C30: for every canvas constructed from a screen width, a screen height and
\* a pixel_size >= 1, and after any zoom changes, get_pixel_coords returns
\* None or a cell (x, y) with 0 <= x < canvas_width and 0 <= y < canvas_height,
\* and canvas_width and canvas_height never change.
C30_CoordsInCanvas ==
    /\ [](lastOp.name = "get_pixel_coords"
            => \/ ret[1] = None
               \/ /\ 0 <= ret[1][1] /\ ret[1][1] < canvas[1].canvas_width
                  /\ 0 <= ret[1][2] /\ ret[1][2] < canvas[1].canvas_height)
    /\ [][/\ canvas'[1].canvas_width = canvas[1].canvas_width
          /\ canvas'[1].canvas_height = canvas[1].canvas_height]_vars

----------------------------------------------------------------------------
(* The T key *)

\* KEYDOWN K_t outside the size field: the first branch of the elif chain that
\* tests K_t toggles the shape and syncs it; the later branch that would call
\* toggle_fill_mode is behind it in the same chain and is never taken
KeyT ==
    ControlEvent(control_event(tools, current_tool_name,
                               Tool_toggle_shape(tools[current_tool_name])),
                 [name |-> "key_t", tool |-> current_tool_name])

NextKeyT ==
    \/ KeyT
    \/ \E key \in ToolNames : KeyTool(key)
    \/ FillModeClick
    \/ \E raw \in SliderRaws : SliderSet(raw)

SpecKeyT == Init /\ [][NextKeyT]_vars

\* C31: one press of T while the Rectangle tool is current flips
\* RectangleTool.fill_mode between 'hollow' and 'fill'.
C31_TKeyFlipsFillMode ==
    [][(lastOp'.name = "key_t" /\ tools' # tools /\ current_tool_name = "rectangle")
       => /\ rect_tool'.fill_mode # rect_tool.fill_mode
          /\ rect_tool'.fill_mode \in {"hollow", "fill"}]_vars

----------------------------------------------------------------------------
(* DrawCommand / FillCommand called directly *)

\* the cells the commands record and the values recorded for them
CommandCells == {<<0, 0>>, <<1, 1>>}
CommandColors == {None, BLACK, RED}
CommandDicts ==
    {[c \in Coords |-> IF c \in CommandCells THEN f[c] ELSE None] :
        f \in [CommandCells -> {None} \cup (CommandColors \X CommandColors)]}
CommandPixels ==
    {[c \in Coords |-> IF c \in CommandCells THEN f[c] ELSE None] :
        f \in [CommandCells -> CommandColors]}

\* a canvas whose layer holds any pixels on the recorded cells, and one
\* DrawCommand or FillCommand on that canvas, held in history[1], with either
\* value of already_executed
InitCommand ==
    /\ layers = <<Layer(1, TRUE, OPAQUE)>>
    /\ current_layer_index = 0
    /\ \E px \in CommandPixels :
          /\ store = [r \in Refs |-> IF r = 1 THEN px ELSE EmptyPixels]
          /\ pixels = px
    /\ created = 1
    /\ current_color = BLACK
    /\ \E pc \in CommandDicts, ae \in BOOLEAN :
          history \in {<<DrawCommand(1, pc, ae)>>, <<FillCommand(1, pc, ae)>>}
    /\ current_index = 0
    /\ ncmds = 1
    /\ max_history = DEFAULT_MAX_HISTORY
    /\ current_tool_name = "brush"
    /\ drawing = FALSE
    /\ last_pos = None
    /\ current_stroke_changes = NoChanges
    /\ lastOp = [name |-> "init"]
    /\ ret = RetNone
    /\ run = RunZero
    /\ snaps = <<>>
    /\ pre_gesture = EmptyPixels
    /\ edits = 0
    /\ midkeys = 0
    /\ flood = NoFlood
    /\ symmetry = SymmetryManager_init
    /\ InitScene

\* a call of a method of the command: r is what the method leaves behind
CommandCall(r, name) ==
    /\ SetDoc(r.doc)
    /\ history' = <<r.cmd>>
    /\ lastOp' = [name |-> name, prev |-> lastOp.name, flag |-> history[1].already_executed,
                  before |-> ActivePixels]
    /\ UNCHANGED <<current_index, max_history, ncmds, editorVars, ret, run, snaps,
                   pre_gesture, edits, midkeys, flood, symmetry, sceneVars>>

\* command.execute()
CommandExecute == CommandCall(Command_execute(Doc, history[1]), "execute")

\* command.undo()
CommandUndo == CommandCall(Command_undo(Doc, history[1]), "undo")

NextCommand == CommandExecute \/ CommandUndo

SpecCommand == InitCommand /\ [][NextCommand]_vars

\* the layer holds component k of the recorded pair on every recorded cell
\* and what it held before the call on every other cell
Wrote(k) ==
    \A c \in Coords :
        ActivePixels[c] = IF history[1].pixels_changed[c] # None
                          THEN history[1].pixels_changed[c][k]
                          ELSE lastOp.before[c]

\* C32: for a DrawCommand and a FillCommand alike, execute() with the flag set
\* changes no pixel; undo() writes the recorded previous value (no entry when
\* it is empty) to every recorded cell and clears the flag; execute() with the
\* flag clear writes the recorded next value to every recorded cell and sets
\* the flag; so a second execute() in a row changes nothing.
C32_CommandFlag ==
    /\ lastOp.name = "execute" =>
          /\ history[1].already_executed
          /\ IF lastOp.flag THEN ActivePixels = lastOp.before ELSE Wrote(2)
          /\ lastOp.prev = "execute" => ActivePixels = lastOp.before
    /\ lastOp.name = "undo" =>
          /\ ~history[1].already_executed
          /\ Wrote(1)

\* undo() erased a cell and put a colour back, then execute() wrote the next
\* values, and a second execute() followed
C32_Witness ==
    /\ lastOp.name = "execute"
    /\ lastOp.prev = "execute"
    /\ history[1].kind = "Fill"
    /\ history[1].pixels_changed[<<0, 0>>] = <<None, RED>>
    /\ history[1].pixels_changed[<<1, 1>>] = <<BLACK, None>>
    /\ ActivePixels[<<0, 0>>] = RED
    /\ ActivePixels[<<1, 1>>] = None

----------------------------------------------------------------------------
(* Gestures on a stack of layers, under SpecLayerPanel *)

\* C33: with two or more layers, the previous value the pushed command stores
\* for a cell is the active layer's own value at that cell before the gesture
\* (no entry when the layer had none), so undo() gives the active layer the
\* pixel map it had before the gesture.
C33_OldValueIsLayerValue ==
    [][(GesturePushed /\ Len(layers) >= 2)
         => LET cmd == history'[current_index' + 1]
                r == undo(Undo', Doc')
            IN /\ \A c \in Keys(cmd.pixels_changed) :
                      cmd.pixels_changed[c][1] = pre_gesture[c]
               /\ LayerPixels(r.doc, r.doc.current_layer_index) = pre_gesture]_vars

\* MOUSEBUTTONDOWN on the row of the layer at position index, right of the
\* visibility box: LayersPanel.handle_click selects the layer
PanelSelect(index) ==
    /\ ~drawing
    /\ index \in LayerIndices
    /\ SetDoc(set_current_layer(Doc, index).doc)
    /\ lastOp' = [name |-> "select_layer"]
    /\ UNCHANGED <<undoVars, ncmds, editorVars, ret, run, snaps, pre_gesture, edits,
                   midkeys, flood, symmetry, sceneVars>>

\* MOUSEBUTTONDOWN on the visibility box of the layer at position index
PanelToggle(index) ==
    /\ ~drawing
    /\ index \in LayerIndices
    /\ SetDoc([Doc EXCEPT !.layers[index + 1].visible = ~@])
    /\ lastOp' = [name |-> "toggle_visibility"]
    /\ UNCHANGED <<undoVars, ncmds, editorVars, ret, run, snaps, pre_gesture, edits,
                   midkeys, flood, symmetry, sceneVars>>

\* the positions of the rows that are clicked
PanelRows == 0 .. MaxLayers - 1

\* every gesture is drawn while the first layer (id 1) is current; between the
\* gestures layers are selected, added, duplicated, removed and merged, and
\* Ctrl+Z / Ctrl+Y are pressed
NextLayerSwitch ==
    \/ CurrentId = 1 /\ \E pos \in MousePoints : MouseDown(pos)
    \/ MouseUp
    \/ ~drawing /\ KeyUndo
    \/ ~drawing /\ KeyRedo
    \/ \E index \in PanelRows : PanelSelect(index)
    \/ \E action \in PanelActions : PanelClick(action)

SpecLayerSwitch == Init /\ [][NextLayerSwitch]_vars

\* a Ctrl+Z or Ctrl+Y step that undid or redid a command
HistoryMoved == ~drawing /\ current_index' # current_index /\ ncmds' = ncmds

\* C34: every command of the history was drawn while the layer with id 1 was
\* current; an undo or redo made after another layer was selected, or after
\* layers were added, removed or merged, leaves the pixels of every layer
\* other than layer 1 unchanged.
C34_UndoTouchesOwnLayer ==
    [][HistoryMoved
         => \A i \in 1 .. Len(layers) :
               layers[i].id # 1 => store'[layers'[i].pix] = store[layers[i].pix]]_vars

----------------------------------------------------------------------------
(* Fill clicks on a stack of layers *)

\* fill clicks on at most two layers that are selected, hidden and shown
NextFillLayers ==
    \/ \E pos \in MousePoints : FillClick(pos)
    \/ ~drawing /\ KeyUndo
    \/ ~drawing /\ \E key \in FillKeys : KeyTool(key)
    \/ \E index \in PanelRows : PanelSelect(index)
    \/ \E index \in PanelRows : PanelToggle(index)
    \/ Len(layers) < 2 /\ PanelClick("new_layer")

SpecFillLayers == Init /\ [][NextFillLayers]_vars

\* a Fill click that changed a pixel of some layer: the pixel store changed
\* and the step is neither an undo nor a redo
FillChanged ==
    /\ lastOp'.name = "fill_click"
    /\ current_tool_name = "fill"
    /\ layers' = layers
    /\ store' # store
    /\ ncmds' = ncmds + 1 \/ current_index' = current_index

\* C35: a Fill click that changes at least one pixel of the active layer
\* pushes one FillCommand whose recorded cells include every changed cell,
\* also when the active layer is hidden or covered by an opaque layer.
C35_FillPushesCommand ==
    [][FillChanged
         => /\ ncmds' = ncmds + 1
            /\ current_index' = Len(history') - 1
            /\ LET cmd == history'[current_index' + 1]
               IN /\ cmd.kind = "Fill"
                  /\ cmd.id = ncmds'
                  /\ \A c \in Coords :
                        ActivePixels'[c] # ActivePixels[c]
                            => c \in Keys(cmd.pixels_changed)]_vars

----------------------------------------------------------------------------
(* Tool keys pressed during a brush or eraser drag *)

\* MOUSEBUTTONUP, button 1, while drawing is False: nothing is pushed; the
\* releases are told apart by an alternating mark
MouseUpIdle ==
    /\ ~drawing
    /\ drawing' = FALSE
    /\ last_pos' = None
    /\ lastOp' = [name |-> "release_idle",
                  mark |-> IF lastOp.name = "release_idle" THEN 1 - lastOp.mark ELSE 0]
    /\ UNCHANGED <<docVars, undoVars, ncmds, current_tool_name, current_stroke_changes,
                   ret, run, snaps, pre_gesture, edits, midkeys, flood, symmetry,
                   sceneVars>>

NextToolSwitch ==
    \/ \E pos \in MousePoints : MouseDown(pos)
    \/ \E pos \in MousePoints : MouseMove(pos)
    \/ MouseUp
    \/ MouseUpIdle
    \/ \E key \in ToolNames : KeyTool(key)

SpecToolSwitch == Init /\ [][NextToolSwitch]_vars

\* the release of a drag that is still in progress and has recorded changes
ReleaseDrawing ==
    /\ drawing /\ ~drawing'
    /\ Keys(current_stroke_changes) # {}
    /\ current_stroke_changes' = NoChanges

\* the release of the button while no drag is in progress
ReleaseIdle == lastOp'.name = "release_idle" /\ lastOp' # lastOp

\* C36: when the button is released after a brush or eraser drag that changed
\* a pixel, exactly one command was pushed for the drag and it lists the
\* changed cells, whichever tool keys were pressed during the drag: a release
\* while the drag is in progress pushes the recorded changes, and at a
\* release with no drag in progress no recorded change is left unpushed.
C36_DragPushesOneCommand ==
    [][/\ ReleaseDrawing
          => /\ ncmds' = ncmds + 1
             /\ current_index' = Len(history') - 1
             /\ history'[current_index' + 1].pixels_changed = current_stroke_changes
       /\ ReleaseIdle => Keys(current_stroke_changes) = {}]_vars

----------------------------------------------------------------------------
(* Ctrl+Z and Ctrl+Y pressed during a brush or eraser drag *)

\* Ctrl+Z / Ctrl+Y arrive at any time, also between the mouse events of a
\* drag; the tool and the colour change only between two drags
NextUndoKeys ==
    \/ \E pos \in MousePoints : MouseDown(pos)
    \/ \E pos \in MousePoints : MouseMove(pos)
    \/ MouseUp
    \/ KeyUndo
    \/ KeyRedo
    \/ ~drawing /\ \E key \in ToolKeys : KeyTool(key)
    \/ ~drawing /\ \E color \in PaletteColors : PaletteClick(color)

SpecUndoKeys == Init /\ [][NextUndoKeys]_vars

\* C37: the history starts empty on the empty canvas S0 and fewer than
\* max_history gestures are drawn; when no drag is in progress and undo() has
\* nothing left to undo (current_index is -1, so undo() returns False), every
\* layer holds the pixels of S0, whenever Ctrl+Z / Ctrl+Y were pressed.
C37_UndoAllRestoresStart ==
    (~drawing /\ ~can_undo(Undo) /\ ncmds < max_history)
        => \A i \in 1 .. Len(layers) : store[layers[i].pix] = EmptyPixels

----------------------------------------------------------------------------
(* LineTool *)

\* the while loop of _get_line_pixels at (x, y) with error term err on the way
\* from p0 to p1; n is the number of passes the loop is followed for
RECURSIVE LineLoop(_, _, _, _, _, _)
LineLoop(x, y, err, p0, p1, n) ==
    LET dx == Abs(p1[1] - p0[1])
        dy == Abs(p1[2] - p0[2])
        sx == IF p0[1] < p1[1] THEN 1 ELSE -1
        sy == IF p0[2] < p1[2] THEN 1 ELSE -1
        e2 == 2 * err
        stepx == e2 > -dy
        stepy == e2 < dx
        err1 == IF stepx THEN err - dy ELSE err
    IN IF x = p1[1] /\ y = p1[2] THEN [pixels |-> <<<<x, y>>>>, returned |-> TRUE]
       ELSE IF n = 0 THEN [pixels |-> <<<<x, y>>>>, returned |-> FALSE]
       ELSE LET rest == LineLoop(IF stepx THEN x + sx ELSE x,
                                 IF stepy THEN y + sy ELSE y,
                                 IF stepy THEN err1 + dx ELSE err1,
                                 p0, p1, n - 1)
            IN [pixels |-> <<<<x, y>>>> \o rest.pixels, returned |-> rest.returned]

\* an off-by-one variant: the end cell is not appended
get_line_pixels_OpenEnd(x0, y0, x1, y1) ==
    LET r == LineLoop(x0, y0, Abs(x1 - x0) - Abs(y1 - y0), <<x0, y0>>, <<x1, y1>>,
                      2 * (Abs(x1 - x0) + Abs(y1 - y0)) + 2)
    IN IF Len(r.pixels) > 1
       THEN [r EXCEPT !.pixels = SubSeq(r.pixels, 1, Len(r.pixels) - 1)]
       ELSE r

\* LineTool._get_line_pixels; the loop is followed for twice as many passes
\* as the two distances add up to, and `returned` tells whether it ended
get_line_pixels(x0, y0, x1, y1) ==
    LineLoop(x0, y0, Abs(x1 - x0) - Abs(y1 - y0), <<x0, y0>>, <<x1, y1>>,
             2 * (Abs(x1 - x0) + Abs(y1 - y0)) + 2)

start_line(t, pos) ==
    LET coords == get_pixel_coords(pos)
    IN IF coords # None THEN [t EXCEPT !.start_pos = coords, !.preview_pixels = <<>>]
       ELSE t

LineTool_update_preview(t, pos) ==
    IF t.start_pos = None THEN t
    ELSE LET coords == get_pixel_coords(pos)
         IN IF coords = None THEN t
            ELSE [t EXCEPT !.preview_pixels =
                      get_line_pixels(t.start_pos[1], t.start_pos[2],
                                      coords[1], coords[2]).pixels]

\* the preview cells on the canvas are painted, one after the other
RECURSIVE PaintCellsFrom(_, _, _)
PaintCellsFrom(d, cells, n) ==
    IF n > Len(cells) THEN d
    ELSE PaintCellsFrom(IF canvas_in_bounds(cells[n])
                        THEN Canvas_set_pixel(d, cells[n], d.current_color)
                        ELSE d,
                        cells, n + 1)

\* apply that paints and keeps the gesture state
LineTool_apply_KeepsAnchor(t, d) ==
    IF t.start_pos = None THEN [tool |-> t, doc |-> d]
    ELSE [tool |-> t, doc |-> PaintCellsFrom(d, t.preview_pixels, 1)]

LineTool_apply(t, d) ==
    IF t.start_pos = None THEN [tool |-> t, doc |-> d]
    ELSE [tool |-> [t EXCEPT !.start_pos = None, !.preview_pixels = <<>>],
          doc |-> PaintCellsFrom(d, t.preview_pixels, 1)]

\* a method of the LineTool is called with the mouse at pos
LineCall(t, d, name, pos) ==
    /\ line_tool' = t
    /\ SetDoc(d)
    /\ lastOp' = [name |-> name, pos |-> pos, prev |-> lastOp.name, tool |-> line_tool,
                  before |-> ActivePixels, color |-> current_color]
    /\ UNCHANGED <<undoVars, ncmds, editorVars, ret, run, snaps, pre_gesture, edits,
                   midkeys, flood, symmetry, scene, nf_width_text, nf_height_text,
                   nf_active, canvas, current_tool_mode, preview_start_pos, tools,
                   rect_tool>>

StartLine(pos) == LineCall(start_line(line_tool, pos), Doc, "start_line", pos)

LineUpdatePreview(pos) ==
    LineCall(LineTool_update_preview(line_tool, pos), Doc, "update_preview", pos)

LineApply(pos) ==
    LET r == LineTool_apply(line_tool, Doc)
    IN LineCall(r.tool, r.doc, "apply", pos)

NextLineTool ==
    \/ \E pos \in RectPoints : StartLine(pos)
    \/ \E pos \in RectPoints : LineUpdatePreview(pos)
    \/ \E pos \in {CellCentre(<<0, 0>>)} : LineApply(pos)
    \/ \E color \in PaletteColors : PaletteClick(color)

SpecLineTool == Init /\ [][NextLineTool]_vars

\* the cells of a list that lie on the canvas
OnCanvasCells(cells) ==
    {cells[n] : n \in {m \in 1 .. Len(cells) :
                          /\ 0 <= cells[m][1] /\ cells[m][1] < canvas_width
                          /\ 0 <= cells[m][2] /\ cells[m][2] < canvas_height}}

\* C38: update_preview and apply change nothing while no anchor is set;
\* start_line at an in-canvas point sets the anchor to its cell and empties
\* the preview list; apply with an anchor sets exactly the in-canvas cells of
\* the preview list to the current colour and resets anchor and preview list,
\* so an apply right after it changes nothing.
C38_LineGesture ==
    /\ (lastOp.name \in {"update_preview", "apply"} /\ lastOp.tool.start_pos = None)
          => line_tool = lastOp.tool /\ ActivePixels = lastOp.before
    /\ (lastOp.name = "start_line" /\ get_pixel_coords(lastOp.pos) # None)
          => /\ line_tool.start_pos = get_pixel_coords(lastOp.pos)
             /\ line_tool.preview_pixels = <<>>
             /\ ActivePixels = lastOp.before
    /\ (lastOp.name = "apply" /\ lastOp.tool.start_pos # None)
          => /\ \A c \in Coords :
                   ActivePixels[c] = IF c \in OnCanvasCells(lastOp.tool.preview_pixels)
                                     THEN lastOp.color ELSE lastOp.before[c]
             /\ line_tool.start_pos = None
             /\ line_tool.preview_pixels = <<>>
    /\ (lastOp.name = "apply" /\ lastOp.prev = "apply") => ActivePixels = lastOp.before

\* a diagonal of two cells was applied in red over black cells
C38_Witness ==
    /\ lastOp.name = "apply"
    /\ lastOp.tool.start_pos = <<0, 0>>
    /\ lastOp.tool.preview_pixels = <<<<0, 0>>, <<1, 1>>>>
    /\ lastOp.before[<<0, 0>>] = BLACK
    /\ ActivePixels[<<0, 0>>] = RED
    /\ ActivePixels[<<1, 1>>] = RED
    /\ ActivePixels[<<1, 0>>] = None

\* the endpoints _get_line_pixels is called with lie MaxLine or less from 0
MaxLine == 2
LineRange == (0 - MaxLine) .. MaxLine

\* a LineTool on a fresh canvas and the endpoints of the call to be made
InitLinePixels ==
    /\ InitDoc
    /\ InitScene
    /\ symmetry = SymmetryManager_init
    /\ max_history = DEFAULT_MAX_HISTORY
    /\ history = <<>>
    /\ current_index = -1
    /\ ncmds = 0
    /\ current_tool_name = "line"
    /\ drawing = FALSE
    /\ last_pos = None
    /\ current_stroke_changes = NoChanges
    /\ \E x0 \in LineRange, y0 \in LineRange, x1 \in LineRange, y1 \in LineRange :
          lastOp = [name |-> "call", a |-> <<x0, y0>>, b |-> <<x1, y1>>]
    /\ ret = RetNone
    /\ run = RunZero
    /\ snaps = <<>>
    /\ pre_gesture = EmptyPixels
    /\ edits = 0
    /\ midkeys = 0
    /\ flood = NoFlood

\* line_tool._get_line_pixels(x0, y0, x1, y1)
GetLinePixels ==
    /\ lastOp.name = "call"
    /\ ret' = <<get_line_pixels(lastOp.a[1], lastOp.a[2], lastOp.b[1], lastOp.b[2])>>
    /\ lastOp' = [lastOp EXCEPT !.name = "_get_line_pixels"]
    /\ UNCHANGED <<docVars, undoVars, ncmds, editorVars, run, snaps, pre_gesture,
                   edits, midkeys, flood, symmetry, sceneVars>>

NextLinePixels == GetLinePixels

SpecLinePixels == InitLinePixels /\ [][NextLinePixels]_vars

\* C39: _get_line_pixels(x0, y0, x1, y1) returns; the list starts with
\* (x0, y0), ends with (x1, y1), has max(|x1 - x0|, |y1 - y0|) + 1 elements,
\* and consecutive cells differ by at most 1 in each coordinate.
C39_LinePixels ==
    lastOp.name = "_get_line_pixels" =>
        LET a == lastOp.a
            b == lastOp.b
            list == ret[1].pixels
        IN /\ ret[1].returned
           /\ list[1] = a
           /\ list[Len(list)] = b
           /\ Len(list) = Max(Abs(b[1] - a[1]), Abs(b[2] - a[2])) + 1
           /\ \A n \in 1 .. Len(list) - 1 :
                 /\ Abs(list[n + 1][1] - list[n][1]) <= 1
                 /\ Abs(list[n + 1][2] - list[n][2]) <= 1

\* a shallow line to the lower left over five cells, two of them one row down
C39_Witness ==
    /\ lastOp.name = "_get_line_pixels"
    /\ lastOp.a = <<2, 0 - 1>>
    /\ lastOp.b = <<0 - 2, 1>>
    /\ Len(ret[1].pixels) = 5
    /\ ret[1].pixels[3][1] = 0

----------------------------------------------------------------------------
(* canvas.pixels, the cached flattened image *)

\* the frame is drawn: PixelCanvas.render refreshes canvas.pixels
Render ==
    /\ SetDoc(update_legacy_pixels(Doc))
    /\ UNCHANGED <<undoVars, ncmds, editorVars, callVars, snaps, pre_gesture, edits,
                   midkeys, flood, symmetry, sceneVars>>

\* the cell the tools are used on
CachePoints == {CellCentre(<<0, 0>>)}

\* the events of the editor with a frame drawn after any number of them
NextCache ==
    \/ \E pos \in CachePoints : FillClick(pos)
    \/ \E pos \in CachePoints : MouseDown(pos)
    \/ MouseUp
    \/ ~drawing /\ \E key \in FillKeys : KeyTool(key)
    \/ \E index \in PanelRows : PanelSelect(index)
    \/ \E index \in PanelRows : PanelToggle(index)
    \/ Len(layers) < 2 /\ PanelClick("new_layer")
    \/ PanelClick("delete_layer")
    \/ PanelClick("merge_down")
    \/ Render

SpecCache == Init /\ [][NextCache]_vars

\* a step in which canvas.pixels is read: a fill click on a canvas cell
\* (FillTool.apply) or a brush / eraser press (record_pixel_change)
ReadsCache ==
    \/ /\ current_tool_name = "fill"
       /\ lastOp'.name = "fill_click"
       /\ lastOp' # lastOp
       /\ lastOp'.coords # None
    \/ ~drawing /\ drawing'

====
